---- MODULE Spec2Model ----
(***************************************************************************)
(* Verification model of the ESG assessment pipeline:                      *)
(*   - the knowledge-base loader loadRMF (rmf-loader),                     *)
(*   - the evidence gatherer searchCompanyInfo (web-search),               *)
(*   - the LLM gateway callLLM (llm-client),                               *)
(*   - the generate-ddq / generate-im / extract-info routes, the two       *)
(*     engines generateDDQ / generateIM and the wizard that drives them,   *)
(*   - the text extraction of uploaded files (document-processor).         *)
(***************************************************************************)
EXTENDS Integers, Sequences, FiniteSets, TLC

VARIABLES
    \* ---- knowledge-base loader (rmf-loader) ----
    cachedRMF,      \* module-level cache: Null or a text
    fileState,      \* environment: per local location, "absent" | "unreadable" | "ok"
    fileText,       \* environment: per local location, the file's content
    netText,        \* environment: the body served at <baseUrl>/ESG_RMF.txt
    isProduction,   \* environment: NODE_ENV === 'production' || VERCEL === '1'
    pc,             \* per async context: where its loadRMF call is suspended
    ret,            \* per async context: value returned by its last loadRMF call
    callOf,         \* per async context: id of the loadRMF call it is running
    nCalls,         \* number of loadRMF calls started so far
    callLog,        \* history: per call id, what the call did and how it ended
    \* ---- evidence gatherer (web-search), per searchCompanyInfo invocation ----
    sPc,            \* "idle" | "inFlight" | "delay" | "returned"
    sCompany,       \* argument companyName
    sQueries,       \* argument queries
    sIdx,           \* position of the for-loop in queries
    sResults,       \* the Map `results`, as a sequence of entries in insertion order
    sLog,           \* history: what the provider answered to each query, in order
    \* ---- LLM gateway (llm-client) ----
    openaiKey,      \* environment: process.env.OPENAI_API_KEY is set
    anthropicKey,   \* environment: process.env.ANTHROPIC_API_KEY is set
    gPc,            \* "idle" | "awaiting" | "returned" | "threw"
    gProvider,      \* argument provider of the running callLLM
    gSent,          \* history: the requests the running callLLM sent, in order
    gOut,           \* the LLMResponse returned, or the value thrown
    gRaw,           \* history: how the awaited backend call settled, Null before
    \* ---- the request being served (routes and engines) ----
    rPc,            \* "idle" | "received" | "readingBody" | "loadingRMF" | "gathering"
                    \*   | "callingLLM" | "responded"
    rFrom,          \* who makes the requests: "wizard" | "api" | "direct"
    rRoute,         \* the route posted to (for a direct call: the engine's route)
    rBody,          \* the request body (for a direct call: the arguments)
    rResp,          \* the response, once there is one
    rLog,           \* history: what the run has done so far
    attempts,       \* extract-info: the retry loop's counter
    retrying,       \* extract-info: the call in flight is the in-iteration retry
    ddqIssued,      \* history: the results generateDDQ returned, and for which company
    \* ---- wizard ----
    step,           \* "upload" | "form" | "ddq" | "im"
    companyInfo,    \* the form's object
    ddqResult,      \* Null or the DDQ result held
    imResult,       \* Null or the IM result held
    loading,        \* a handler is waiting for a response
    uploadedText,   \* the text kept from the upload step
    \* ---- text extraction (document-processor) ----
    geminiKey,      \* environment: process.env.GEMINI_API_KEY is set
    dPc,            \* "idle" | "readingBuffer" | "loadingPdf" | "fallback" | "mammoth"
                    \*   | "racing" | "returned" | "threw"
    dFile,          \* the file being extracted, Null before the call
    dOut,           \* Null, or the value returned / the error thrown
    errorMessage,   \* the message of the error the PDF catch block caught
    dClock,         \* minutes since the extraction call started
    dTimer,         \* the timeout's setTimeout: "unset" | "armed" | "fired"
    dProvider       \* the generateContent promise: "none" | "pending" | "settled"

rmfEnv  == <<fileState, fileText, netText, isProduction>>
rmfVars == <<cachedRMF, fileState, fileText, netText, isProduction, pc, ret,
             callOf, nCalls, callLog>>

searchVars == <<sPc, sCompany, sQueries, sIdx, sResults, sLog>>

credVars == <<openaiKey, anthropicKey>>
gatewayVars == <<gPc, gProvider, gSent, gOut, gRaw>>

serverVars == <<rPc, rFrom, rRoute, rBody, rResp, rLog, attempts, retrying, ddqIssued>>
wizardVars == <<step, companyInfo, ddqResult, imResult, loading, uploadedText>>

docVars == <<geminiKey, dPc, dFile, dOut, errorMessage, dClock, dTimer, dProvider>>

vars == <<rmfVars, searchVars, credVars, gatewayVars, serverVars, wizardVars, docVars>>

-----------------------------------------------------------------------------
(* Bounds *)

\* number of async contexts that may call loadRMF concurrently
NumCallers == 2
\* number of loadRMF calls in one behaviour
MaxCalls == 3
\* longest topic list handed to a stand-alone searchCompanyInfo call
MaxTopics == 3

-----------------------------------------------------------------------------
(* Strings.  TLC evaluates Len, SubSeq and \o on strings, so texts are     *)
(* TLA+ strings and the JavaScript string methods are computed on them.    *)

\* an optional value: <<>> is null/undefined, <<v>> is the value v
Null == <<>>
Some(v) == <<v>>
Val(o) == o[1]

\* JavaScript truthiness of a (string | null) value
Truthy(o) == o /= Null /\ Len(Val(o)) > 0

CharAt(s, i) == SubSeq(s, i, i)

WhitespaceChars == {" ", "\n", "\t", "\r"}

RECURSIVE TrimStart(_)
TrimStart(s) ==
    IF Len(s) > 0 /\ CharAt(s, 1) \in WhitespaceChars
    THEN TrimStart(SubSeq(s, 2, Len(s)))
    ELSE s

RECURSIVE TrimEnd(_)
TrimEnd(s) ==
    IF Len(s) > 0 /\ CharAt(s, Len(s)) \in WhitespaceChars
    THEN TrimEnd(SubSeq(s, 1, Len(s) - 1))
    ELSE s

\* String.prototype.trim
Trim(s) == TrimEnd(TrimStart(s))

\* String.prototype.includes (case-sensitive substring test)
Includes(s, t) ==
    \E i \in 0..(Len(s) - Len(t)) : SubSeq(s, i + 1, i + Len(t)) = t

UpperLetters == "ABCDEFGHIJKLMNOPQRSTUVWXYZ"
LowerLetters == "abcdefghijklmnopqrstuvwxyz"

\* the letter-to-letter table taking each letter of `from` to that of `to`
LetterMap(from, to) ==
    [c \in {CharAt(from, i) : i \in 1..Len(from)} |->
        CharAt(to, CHOOSE i \in 1..Len(from) : CharAt(from, i) = c)]

LowerOf == LetterMap(UpperLetters, LowerLetters)
UpperOf == LetterMap(LowerLetters, UpperLetters)

\* s with each of its characters taken through the table, by halves
RECURSIVE MapString(_, _)
MapString(s, table) ==
    IF Len(s) = 0 THEN ""
    ELSE IF Len(s) = 1 THEN (IF s \in DOMAIN table THEN table[s] ELSE s)
    ELSE LET half == Len(s) \div 2
         IN  MapString(SubSeq(s, 1, half), table)
                 \o MapString(SubSeq(s, half + 1, Len(s)), table)

\* String.prototype.toLowerCase / toUpperCase
ToLowerCase(s) == MapString(s, LowerOf)
ToUpperCase(s) == MapString(s, UpperOf)

\* contents the ESG_RMF.txt file or URL may hold
RMFTexts == { "", " \n", "RMF", "RMF\n" }

-----------------------------------------------------------------------------
(* Evidence gatherer: searchCompanyInfo *)

\* concurrent invocations of searchCompanyInfo (generateDDQ runs two)
SearchCalls == {1, 2}

\* a Map that puts a new key in front of the others
MapSetFront(m, k, v) ==
    IF \E i \in 1..Len(m) : m[i].key = k
    THEN [i \in 1..Len(m) |-> IF m[i].key = k THEN [key |-> k, value |-> v] ELSE m[i]]
    ELSE <<[key |-> k, value |-> v]>> \o m

\* Map.prototype.set on a Map kept as a sequence of [key, value] entries:
\* an existing key keeps its position, a new key is appended
MapSet(m, k, v) ==
    IF \E i \in 1..Len(m) : m[i].key = k
    THEN [i \in 1..Len(m) |-> IF m[i].key = k THEN [key |-> k, value |-> v] ELSE m[i]]
    ELSE Append(m, [key |-> k, value |-> v])

\* `${companyName} ${query}`
FullQuery(company, query) == company \o " " \o query

\* the phrases that mark a response as "nothing found" (lines 105-108)
NegativePhrases == { "no relevant information found", "no information found",
                     "could not find", "not available in my knowledge" }

\* response.choices[0]?.message?.content || ''
ContentOf(c) == IF Truthy(c) THEN Val(c) ELSE ""

\* the result list built from a response's content (lines 103-121)
ParseSearchResponse(fullQuery, content) ==
    IF \E ph \in NegativePhrases : Includes(ToLowerCase(content), ph)
    THEN <<>>
    ELSE << [ title |-> "Search Results: " \o fullQuery,
              url |-> "OpenAI Knowledge Base",
              snippet |-> content,
              relevanceScore |-> "0.8" ] >>

\* results.set(query, ...) after a response (lines 123-127)
StoreResponse(m, query, fullQuery, content) ==
    MapSet(m, query, [query |-> fullQuery,
                      results |-> ParseSearchResponse(fullQuery, content)])

\* a catch block that swallows the error without recording the query
CatchQueryError_NoEntry(m, query, fullQuery) == m

\* the per-query catch block (lines 132-144)
CatchQueryError(m, query, fullQuery) ==
    MapSet(m, query, [query |-> fullQuery, results |-> <<>>])

SearchIdle ==
    /\ sPc = [k \in SearchCalls |-> "idle"]
    /\ sCompany = [k \in SearchCalls |-> ""]
    /\ sQueries = [k \in SearchCalls |-> <<>>]
    /\ sIdx = [k \in SearchCalls |-> 0]
    /\ sResults = [k \in SearchCalls |-> <<>>]
    /\ sLog = [k \in SearchCalls |-> <<>>]

\* a loop that gives up at its end instead of returning the bundle
LoopAbandon(k, i, queries) ==
    /\ sIdx' = [sIdx EXCEPT ![k] = i]
    /\ sPc' = [sPc EXCEPT ![k] = IF i <= Len(queries) THEN "inFlight" ELSE "threw"]

\* the loop moves to position i: the next request is issued, or the loop is
\* over and the Map is returned (lines 57, 147-150)
LoopAt(k, i, queries) ==
    /\ sIdx' = [sIdx EXCEPT ![k] = i]
    /\ sPc' = [sPc EXCEPT ![k] = IF i <= Len(queries) THEN "inFlight" ELSE "returned"]

\* searchCompanyInfo(company, queries) is called and runs to its first await
SearchEnter(k, company, queries) ==
    /\ sPc[k] = "idle"
    /\ sCompany' = [sCompany EXCEPT ![k] = company]
    /\ sQueries' = [sQueries EXCEPT ![k] = queries]
    /\ sResults' = [sResults EXCEPT ![k] = <<>>]
    /\ sLog' = [sLog EXCEPT ![k] = <<>>]
    /\ LoopAt(k, 1, queries)

\* await openai.chat.completions.create(...) settles with outcome o
SearchSettle(k, o) ==
    /\ sPc[k] = "inFlight"
    /\ LET query == sQueries[k][sIdx[k]]
           fullQuery == FullQuery(sCompany[k], query)
       IN  IF o.threw
           THEN /\ sResults' = [sResults EXCEPT ![k] =
                                    CatchQueryError(sResults[k], query, fullQuery)]
                /\ LoopAt(k, sIdx[k] + 1, sQueries[k])
           ELSE /\ sResults' = [sResults EXCEPT ![k] =
                        StoreResponse(sResults[k], query, fullQuery, ContentOf(o.content))]
                /\ sPc' = [sPc EXCEPT ![k] = "delay"]
                /\ UNCHANGED sIdx
    /\ sLog' = [sLog EXCEPT ![k] = Append(sLog[k], o)]
    /\ UNCHANGED <<sCompany, sQueries>>

\* the 500 ms delay after a stored response has elapsed (line 130)
SearchDelayElapsed(k) ==
    /\ sPc[k] = "delay"
    /\ LoopAt(k, sIdx[k] + 1, sQueries[k])
    /\ UNCHANGED <<sCompany, sQueries, sResults, sLog>>

\* inputs and provider answers of the stand-alone evidence specification
Companies == {"Acme", "Beta Ltd"}
Topics == { "regulatory breaches ESG compliance violations",
            "supply chain violations labor issues",
            "ESG policy sustainability practices" }

RECURSIVE SeqsUpTo(_, _)
SeqsUpTo(S, n) ==
    IF n = 0 THEN {<<>>}
    ELSE LET shorter == SeqsUpTo(S, n - 1)
         IN  shorter \cup {Append(q, x) : q \in shorter, x \in S}

Threw == [threw |-> TRUE, content |-> Null]
Answered(c) == [threw |-> FALSE, content |-> c]

SearchOutcomes ==
    { Threw, Answered(Null),
      Answered(Some("No relevant information found in knowledge base.")),
      Answered(Some("I COULD NOT FIND any records.")),
      Answered(Some("Fined in 2019 for a data breach.")) }

SearchCall ==
    /\ \E c \in Companies, qs \in SeqsUpTo(Topics, MaxTopics) : SearchEnter(1, c, qs)
    /\ UNCHANGED <<rmfVars, credVars, docVars, gatewayVars, serverVars, wizardVars>>

SearchAnswer ==
    /\ \E o \in SearchOutcomes : SearchSettle(1, o)
    /\ UNCHANGED <<rmfVars, credVars, docVars, gatewayVars, serverVars, wizardVars>>

SearchDelay ==
    /\ SearchDelayElapsed(1)
    /\ UNCHANGED <<rmfVars, credVars, docVars, gatewayVars, serverVars, wizardVars>>

-----------------------------------------------------------------------------
(* LLM gateway: callLLM *)

Providers == {"openai", "anthropic"}

\* a thrown value: an Error with a message, or something that is not an Error
ErrorOf(msg) == [isError |-> TRUE, message |-> msg]
NonError(v) == [isError |-> FALSE, message |-> v]

MissingKeyError == ErrorOf("OPENAI_API_KEY is not set")

AuthenticationFailed(provider) ==
    ErrorOf("LLM API authentication failed. Please check your "
                \o ToUpperCase(provider) \o " API key.")
RateLimitExceeded == ErrorOf("LLM API rate limit exceeded. Please try again later.")
RequestTimedOut == ErrorOf("LLM API request timed out. Please try again.")

\* the catch block of callLLM (lines 147-185): the value it throws for `e`
Classify(e, provider) ==
    IF e.isError /\ (Includes(e.message, "API key") \/ Includes(e.message, "authentication"))
    THEN AuthenticationFailed(provider)
    ELSE IF e.isError /\ (Includes(e.message, "rate limit") \/ Includes(e.message, "429"))
    THEN RateLimitExceeded
    ELSE IF e.isError /\ (Includes(e.message, "timeout") \/ Includes(e.message, "ETIMEDOUT"))
    THEN RequestTimedOut
    ELSE e

\* the backend callLLM sends its request to (lines 75, 104), "none" when it
\* throws before sending
BackendFor(provider) ==
    IF provider = "anthropic" /\ anthropicKey THEN "anthropic"
    ELSE IF openaiKey THEN "openai"
    ELSE "none"

DefaultSystemPrompt ==
    "You are a helpful assistant that analyzes ESG compliance for investment companies."

\* the request sent to a backend (lines 77-87, 113-120)
RequestTo(backend, prompt, systemPrompt) ==
    IF backend = "anthropic"
    THEN [ backend |-> backend, model |-> "claude-3-5-sonnet-20241022",
           system |-> IF Truthy(systemPrompt) THEN systemPrompt ELSE Some(DefaultSystemPrompt),
           prompt |-> prompt ]
    ELSE [ backend |-> backend, model |-> "gpt-4-turbo-preview",
           system |-> IF Truthy(systemPrompt) THEN systemPrompt ELSE Null,
           prompt |-> prompt ]

GatewayIdle ==
    /\ gPc = "idle"
    /\ gProvider = "openai"
    /\ gSent = <<>>
    /\ gOut = Null
    /\ gRaw = Null

\* callLLM(prompt, systemPrompt, provider) runs to its await, or throws
GatewayStart(prompt, systemPrompt, provider) ==
    /\ gProvider' = provider
    /\ gRaw' = Null
    /\ LET backend == BackendFor(provider)
       IN  IF backend = "none"
           THEN /\ gPc' = "threw"
                /\ gSent' = <<>>
                /\ gOut' = Some(Classify(MissingKeyError, provider))
           ELSE /\ gPc' = "awaiting"
                /\ gSent' = <<RequestTo(backend, prompt, systemPrompt)>>
                /\ gOut' = Null

GatewayEnter(prompt, systemPrompt, provider) ==
    /\ gPc = "idle"
    /\ GatewayStart(prompt, systemPrompt, provider)

\* the content callLLM takes from a backend's answer (lines 91, 124)
ResponseContent(c) == IF Truthy(c) THEN Val(c) ELSE ""

\* the awaited backend call settles: an answer with content c, or a failure e
GatewaySettle(o) ==
    /\ gPc = "awaiting"
    /\ IF o.failed
       THEN /\ gPc' = "threw"
            /\ gOut' = Some(Classify(o.error, gProvider))
       ELSE /\ gPc' = "returned"
            /\ gOut' = Some([content |-> ResponseContent(o.content)])
    /\ gRaw' = Some(o)
    /\ UNCHANGED <<gProvider, gSent>>

\* the caller takes the response or the error, and the call is over
GatewayTake ==
    /\ gPc \in {"returned", "threw"}
    /\ gPc' = "idle"
    /\ gSent' = <<>>
    /\ gOut' = Null
    /\ gRaw' = Null
    /\ UNCHANGED gProvider

\* how a backend call ends: it fails, for a cause and with a thrown value, or
\* it answers with a content
Causes == {"authentication", "throttling", "timeout", "other"}
Failure(cause, e) == [failed |-> TRUE, cause |-> cause, error |-> e, content |-> Null]
Answer(c) == [failed |-> FALSE, cause |-> "none", error |-> NonError(""), content |-> c]

\* failures a backend call can end with
ProviderFailures ==
    { Failure("authentication", ErrorOf("401 Incorrect API key provided: sk-bad.")),
      Failure("authentication", ErrorOf("401 authentication_error: invalid x-api-key")),
      Failure("throttling", ErrorOf("429 Rate limit reached for requests")),
      Failure("timeout", ErrorOf("Request timed out.")),
      Failure("timeout", ErrorOf("connect ETIMEDOUT 104.18.7.192:443")),
      Failure("other", ErrorOf("500 Internal server error")),
      Failure("other", NonError("aborted")) }

\* answers a backend call can end with
ProviderAnswers ==
    { Answer(Null), Answer(Some("  ")), Answer(Some("{\"riskCategory\":\"Category B\"}")) }

\* stand-alone calls of the gateway
GatewayCall ==
    /\ \E provider \in Providers, systemPrompt \in {Null, Some(""), Some("You are an analyst.")} :
          GatewayEnter("Assess the company.", systemPrompt, provider)
    /\ UNCHANGED <<rmfVars, searchVars, credVars, docVars, serverVars, wizardVars>>

GatewayAnswer ==
    /\ \E o \in ProviderFailures \cup ProviderAnswers : GatewaySettle(o)
    /\ UNCHANGED <<rmfVars, searchVars, credVars, docVars, serverVars, wizardVars>>

GatewayReturn ==
    /\ GatewayTake
    /\ UNCHANGED <<rmfVars, searchVars, credVars, docVars, serverVars, wizardVars>>

CredInit ==
    /\ openaiKey \in BOOLEAN
    /\ anthropicKey \in BOOLEAN

-----------------------------------------------------------------------------
(* Knowledge-base loader *)

Procs == 1..NumCallers
CallIds == 1..MaxCalls

Locations == {"public", "root"}

\* path.join(cwd,'public','ESG_RMF.txt'), path.join(cwd,'ESG_RMF.txt'),
\* path.resolve('./public/ESG_RMF.txt'): the first and the third are one file
possiblePaths == <<"public", "root", "public">>

\* fs.existsSync
existsSync(loc) == fileState[loc] /= "absent"

\* the first existing path of possiblePaths, or Null
filePath ==
    IF \E i \in 1..Len(possiblePaths) : existsSync(possiblePaths[i])
    THEN possiblePaths[CHOOSE i \in 1..Len(possiblePaths) :
            /\ existsSync(possiblePaths[i])
            /\ \A j \in 1..(i - 1) : ~existsSync(possiblePaths[j])]
    ELSE "none"

NewCall == [read |-> "none", fetched |-> FALSE, written |-> Null,
            hit |-> FALSE, outcome |-> "running", text |-> Null]

IdleCall == [read |-> "none", fetched |-> FALSE, written |-> Null,
             hit |-> FALSE, outcome |-> "none", text |-> Null]

RMFEnvInit ==
    /\ fileState \in [Locations -> {"absent", "unreadable", "ok"}]
    /\ fileText \in [Locations -> RMFTexts]
    /\ \A l \in Locations : fileState[l] /= "ok" => fileText[l] = ""
    /\ isProduction \in BOOLEAN
    /\ netText \in RMFTexts
    /\ ~isProduction => netText = ""

RMFStart ==
    /\ RMFEnvInit
    /\ cachedRMF = Null
    /\ pc = [p \in Procs |-> "idle"]
    /\ ret = [p \in Procs |-> Null]
    /\ callOf = [p \in Procs |-> 0]
    /\ nCalls = 0
    /\ callLog = [c \in CallIds |-> IdleCall]

\* the cached value is returned when it is truthy (line 271)
CacheHit == Truthy(cachedRMF)

\* the fetch fallback is taken only in production (lines 307-309)
FetchAllowed == isProduction

\* the synchronous part of loadRMF, up to its first await or its return
LoadRMFEnter(p) ==
    /\ nCalls < MaxCalls
    /\ nCalls' = nCalls + 1
    /\ callOf' = [callOf EXCEPT ![p] = nCalls + 1]
    /\ LET id == nCalls + 1
           tried == ~CacheHit /\ filePath /= "none"
           readOk == tried /\ fileState[filePath] = "ok"
       IN  IF CacheHit
              THEN /\ pc' = [pc EXCEPT ![p] = "returned"]
                   /\ ret' = [ret EXCEPT ![p] = cachedRMF]
                   /\ callLog' = [callLog EXCEPT ![id] =
                         [NewCall EXCEPT !.hit = TRUE, !.outcome = "returned",
                                         !.text = cachedRMF]]
                   /\ UNCHANGED cachedRMF
              ELSE IF readOk
              THEN /\ cachedRMF' = Some(fileText[filePath])
                   /\ pc' = [pc EXCEPT ![p] = "returned"]
                   /\ ret' = [ret EXCEPT ![p] = Some(fileText[filePath])]
                   /\ callLog' = [callLog EXCEPT ![id] =
                         [NewCall EXCEPT !.read = "ok", !.written = Some(fileText[filePath]),
                                         !.outcome = "returned",
                                         !.text = Some(fileText[filePath])]]
              ELSE IF FetchAllowed
              THEN /\ pc' = [pc EXCEPT ![p] = "fetching"]
                   /\ callLog' = [callLog EXCEPT ![id] =
                         [NewCall EXCEPT !.read = IF tried THEN "failed" ELSE "none",
                                         !.fetched = TRUE]]
                   /\ UNCHANGED <<cachedRMF, ret>>
              ELSE /\ pc' = [pc EXCEPT ![p] = "threw"]
                   /\ callLog' = [callLog EXCEPT ![id] =
                         [NewCall EXCEPT !.read = IF tried THEN "failed" ELSE "none",
                                         !.outcome = "threw"]]
                   /\ UNCHANGED <<cachedRMF, ret>>
    /\ UNCHANGED rmfEnv

\* await fetch(...) settles: a response that is ok, one that is not, or a rejection
FetchSettle(p) ==
    /\ pc[p] = "fetching"
    /\ \E r \in {"ok", "notOk", "reject"} :
          IF r = "ok"
          THEN /\ pc' = [pc EXCEPT ![p] = "readingBody"]
               /\ UNCHANGED callLog
          ELSE /\ pc' = [pc EXCEPT ![p] = "threw"]
               /\ callLog' = [callLog EXCEPT ![callOf[p]].outcome = "threw"]
    /\ UNCHANGED <<cachedRMF, ret, callOf, nCalls, rmfEnv>>

\* the check made on the fetched text before it is returned (line 324)
FetchedTextRejected(o) == ~Truthy(o) \/ Len(Trim(Val(o))) = 0

\* await response.text() settles: the body, or a rejection
BodySettle(p) ==
    /\ pc[p] = "readingBody"
    /\ \/ /\ cachedRMF' = Some(netText)
          /\ IF FetchedTextRejected(Some(netText))
             THEN /\ pc' = [pc EXCEPT ![p] = "threw"]
                  /\ callLog' = [callLog EXCEPT ![callOf[p]].written = Some(netText),
                                                ![callOf[p]].outcome = "threw"]
                  /\ UNCHANGED ret
             ELSE /\ pc' = [pc EXCEPT ![p] = "returned"]
                  /\ ret' = [ret EXCEPT ![p] = Some(netText)]
                  /\ callLog' = [callLog EXCEPT ![callOf[p]].written = Some(netText),
                                                ![callOf[p]].outcome = "returned",
                                                ![callOf[p]].text = Some(netText)]
       \/ /\ pc' = [pc EXCEPT ![p] = "threw"]
          /\ callLog' = [callLog EXCEPT ![callOf[p]].outcome = "threw"]
          /\ UNCHANGED <<cachedRMF, ret>>
    /\ UNCHANGED <<callOf, nCalls, rmfEnv>>

\* a caller starts a loadRMF call
CallLoadRMF(p) ==
    /\ pc[p] = "idle"
    /\ LoadRMFEnter(p)

\* a caller starts a loadRMF call when no other call is in progress
CallLoadRMFSeq(p) ==
    /\ \A q \in Procs : pc[q] = "idle"
    /\ CallLoadRMF(p)

\* the caller takes the result (or the error) of its call
CallerResume(p) ==
    /\ pc[p] \in {"returned", "threw"}
    /\ pc' = [pc EXCEPT ![p] = "idle"]
    /\ UNCHANGED <<cachedRMF, ret, callOf, nCalls, callLog, rmfEnv>>

-----------------------------------------------------------------------------
(* Structured output: callLLMJSON *)

\* String.prototype.substring(0, n)
Prefix(s, n) == SubSeq(s, 1, IF Len(s) < n THEN Len(s) ELSE n)

StartsWith(s, t) == Len(s) >= Len(t) /\ SubSeq(s, 1, Len(t)) = t

\* Array.prototype.join
RECURSIVE Join(_, _)
Join(q, sep) ==
    IF Len(q) = 0 THEN ""
    ELSE IF Len(q) = 1 THEN q[1]
    ELSE q[1] \o sep \o Join(Tail(q), sep)

\* the places of s where t occurs
Occurrences(s, t) == {i \in 1..(Len(s) - Len(t) + 1) : SubSeq(s, i, i + Len(t) - 1) = t}

\* s.replace(/<fence>\n?/g, ''): every occurrence of the fence, from left to
\* right, goes with the newline that follows it
RECURSIVE RemoveFence(_, _)
RemoveFence(s, fence) ==
    IF Occurrences(s, fence) = {} THEN s
    ELSE LET first == CHOOSE i \in Occurrences(s, fence) :
                          \A j \in Occurrences(s, fence) : i <= j
             rest == SubSeq(s, first + Len(fence), Len(s))
         IN  SubSeq(s, 1, first - 1)
                 \o RemoveFence(IF StartsWith(rest, "\n") THEN SubSeq(rest, 2, Len(rest))
                                 ELSE rest,
                                fence)

\* the Markdown code fence; a TLA+ string cannot hold a backquote, so the
\* character ^ stands for it in every text of the model
Fence == "^^^"

\* a stripper that also drops the first and the last character
StripEnds(content) == SubSeq(Trim(content), 2, Len(Trim(content)) - 1)

\* content.replace(/<Fence>json\n?/g, '').replace(/<Fence>\n?/g, '').trim()  (line 217)
StripFences(content) == Trim(RemoveFence(RemoveFence(content, Fence \o "json"), Fence))

Positions(s, c) == {i \in 1..Len(s) : CharAt(s, i) = c}
Least(S) == CHOOSE x \in S : \A y \in S : x <= y
Greatest(S) == CHOOSE x \in S : \A y \in S : x >= y

\* no brace span is looked for
JsonMatchNone(cleaned) == Null

\* cleaned.match(/\{[\s\S]*\}/): the span from the first "{" to the last "}"
JsonMatch(cleaned) ==
    LET opens == Positions(cleaned, "{")
        closes == Positions(cleaned, "}")
    IN  IF opens /= {} /\ closes /= {} /\ Least(opens) < Greatest(closes)
        THEN Some(SubSeq(cleaned, Least(opens), Greatest(closes)))
        ELSE Null

\* a complete CompanyInfo for a company name
Profile(name) ==
    [ companyName |-> name,
      sector |-> "Healthcare",
      subSector |-> "Telemedicine",
      countriesOfOperation |-> <<"Vietnam", "Singapore">>,
      numberOfEmployees |-> "50-100",
      businessActivities |->
          "Operates a network of clinics and a telemedicine platform in two countries.",
      productDescription |->
          "A subscription telemedicine service with in-person clinic visits for families." ]

\* JSON text of a CompanyInfo whose countries are Vietnam and Singapore
ProfileText(p) ==
    "{\"companyName\":\"" \o p.companyName \o "\",\"sector\":\"" \o p.sector
        \o "\",\"subSector\":\"" \o p.subSector
        \o "\",\"countriesOfOperation\":[\"Vietnam\",\"Singapore\"],\"numberOfEmployees\":\""
        \o p.numberOfEmployees \o "\",\"businessActivities\":\"" \o p.businessActivities
        \o "\",\"productDescription\":\"" \o p.productDescription \o "\"}"

\* CompanyInfo objects an extraction may come back with
Unnamed == [Profile("Acme") EXCEPT !.companyName = "Not specified"]
Terse == [Profile("Acme") EXCEPT !.businessActivities = "Clinics."]
NameOnly == [companyName |-> "Acme"]

\* a DDQResult and an IMResult
DDQ1 ==
    [ riskManagement |-> <<"ESG Policy">>, environment |-> <<"Energy">>,
      social |-> <<"Labour">>, governance |-> <<"Board">>,
      trackRecord |-> [regulatoryBreaches |-> "None"] ]
DDQ1Text ==
    "{\"riskManagement\":[\"ESG Policy\"],\"environment\":[\"Energy\"],\"social\":[\"Labour\"],"
        \o "\"governance\":[\"Board\"],\"trackRecord\":{\"regulatoryBreaches\":\"None\"}}"
IM1 == [riskCategory |-> "Category B", gaps |-> <<"No ESG policy">>]
IM1Text == "{\"riskCategory\":\"Category B\",\"gaps\":[\"No ESG policy\"]}"

\* the areas of the rubric, by category (ddq-generator 263-343)
RubricAreas ==
    [ riskManagement |->
          << "ESG Policy", "ESG Risk and Opportunity Identification", "ESG Reporting",
             "ESG Performance Management & Monitoring" >>,
      environment |-> << "Environmental impact", "Greenhouse gas emissions" >>,
      social |->
          << "Labour Standards", "Occupational Health & Safety Standards",
             "Child and Forced Labour Policy", "Community Engagement and Impact",
             "Consumer Protection", "Supply chain risk management" >>,
      governance |->
          << "Commitment to Corporate Governance (CG)", "Board Structure and Functioning",
             "Compliance with Laws & Regulations",
             "Anti-Bribery and Corruption (ABC) Management", "AML, KYC & KYB Management",
             "GRM & PPM", "Cyber Security and Data Governance" >> ]

\* the assessments of a category, one per area and named after it, and
\* their JSON text
Assessments(names) == [i \in 1..Len(names) |-> [area |-> names[i]]]
AssessmentsText(names) ==
    "[" \o Join([i \in 1..Len(names) |-> "{\"area\":\"" \o names[i] \o "\"}"], ",") \o "]"

\* the DDQResult that follows the rubric
GoldenDDQ ==
    [ riskManagement |-> Assessments(RubricAreas.riskManagement),
      environment |-> Assessments(RubricAreas.environment),
      social |-> Assessments(RubricAreas.social),
      governance |-> Assessments(RubricAreas.governance),
      trackRecord |-> [regulatoryBreaches |-> "None"] ]
GoldenDDQText ==
    "{\"riskManagement\":" \o AssessmentsText(RubricAreas.riskManagement)
        \o ",\"environment\":" \o AssessmentsText(RubricAreas.environment)
        \o ",\"social\":" \o AssessmentsText(RubricAreas.social)
        \o ",\"governance\":" \o AssessmentsText(RubricAreas.governance)
        \o ",\"trackRecord\":{\"regulatoryBreaches\":\"None\"}}"

\* a JSON array whose elements are q (kept apart from an object by its shape)
ArrayOf(q) == [array |-> q]

\* small JSON documents: objects, one of them with a fence marker inside a
\* string (and what is left of it without the marker), and arrays of objects
SmallDocs ==
    { [text |-> "{\"a\":1}", value |-> Some([a |-> 1])],
      [text |-> "{\"note\":\"put " \o Fence \o " around code\"}",
       value |-> Some([note |-> "put " \o Fence \o " around code"])],
      [text |-> "{\"note\":\"put  around code\"}", value |-> Some([note |-> "put  around code"])],
      [text |-> "[{\"a\":1}]", value |-> Some(ArrayOf(<<[a |-> 1]>>))],
      [text |-> "[{\"a\":1},{\"b\":2}]", value |-> Some(ArrayOf(<<[a |-> 1], [b |-> 2]>>))] }

\* the JSON documents considered: a text and the value JSON.parse gives for it
\* (Null for the JSON null); every other text is a syntax error
JSONDocs ==
    { [text |-> ProfileText(p), value |-> Some(p)] :
          p \in {Profile(c) : c \in Companies} \cup {Unnamed, Terse} }
    \cup { [text |-> DDQ1Text, value |-> Some(DDQ1)],
           [text |-> GoldenDDQText, value |-> Some(GoldenDDQ)],
           [text |-> IM1Text, value |-> Some(IM1)],
           [text |-> "{\"companyName\":\"Acme\"}", value |-> Some(NameOnly)],
           [text |-> "null", value |-> Null] }
    \cup SmallDocs

\* JSON.parse: white space around the document is skipped
JSONParse(text) ==
    IF \E d \in JSONDocs : d.text = Trim(text)
    THEN [ok |-> TRUE, value |-> (CHOOSE d \in JSONDocs : d.text = Trim(text)).value]
    ELSE [ok |-> FALSE, value |-> Null]

\* JSON.stringify of a value or of null
JSONStringify(o) ==
    IF \E d \in JSONDocs : d.value = o
    THEN (CHOOSE d \in JSONDocs : d.value = o).text
    ELSE "{}"

\* the outcome of an async call: a returned value or a thrown one
Returns(v) == [ok |-> TRUE, value |-> Some(v), error |-> NonError("")]
Throws(e) == [ok |-> FALSE, value |-> Null, error |-> e]

\* `${prompt}\n\nRespond with valid JSON only, no markdown formatting.` (line 201)
JSONPrompt(prompt) == prompt \o "\n\nRespond with valid JSON only, no markdown formatting."

\* the error carrying the whole response
InvalidJSONWhole(content) ==
    ErrorOf("Invalid JSON response from LLM. Response preview: " \o content \o "...")

InvalidJSON(content) ==
    ErrorOf("Invalid JSON response from LLM. Response preview: "
                \o Prefix(content, 200) \o "...")

\* parsing without the test for an empty response
ParseAnyResponse(content) ==
    LET stripped == StripFences(content)
        jsonMatch == JsonMatch(stripped)
        cleaned == IF jsonMatch /= Null THEN Val(jsonMatch) ELSE stripped
        parsed == JSONParse(cleaned)
    IN  IF parsed.ok /\ parsed.value /= Null
        THEN Returns(Val(parsed.value))
        ELSE Throws(InvalidJSON(content))

\* what callLLMJSON makes of the content callLLM returned (lines 206-245)
ParseLLMResponse(content) ==
    IF Len(content) = 0 \/ Len(Trim(content)) = 0
    THEN Throws(ErrorOf("LLM returned empty response"))
    ELSE LET stripped == StripFences(content)
             jsonMatch == JsonMatch(stripped)
             cleaned == IF jsonMatch /= Null THEN Val(jsonMatch) ELSE stripped
             parsed == JSONParse(cleaned)
         IN  IF parsed.ok /\ parsed.value /= Null
             THEN Returns(Val(parsed.value))
             ELSE Throws(InvalidJSON(content))

\* what callLLMJSON makes of the way its callLLM call ended (lines 199-256)
CallLLMJSONResult ==
    IF gPc = "threw" THEN Throws(Val(gOut))
    ELSE ParseLLMResponse(Val(gOut).content)

-----------------------------------------------------------------------------
(* Assessment engines: generateDDQ, generateIM *)

\* the async context in which the engines call loadRMF
Engine == 1

trackRecordQueries ==
    << "regulatory breaches ESG compliance violations",
       "supply chain violations labor issues",
       "financial audit qualified opinion restatement",
       "ESG reporting sustainability disclosure",
       "transparency disclosure public records" >>

esgQueries ==
    << "ESG policy sustainability practices",
       "environmental policy climate action",
       "social responsibility labor standards",
       "governance policies board structure",
       "ESG reporting sustainability report" >>

\* Array.from(results.values())
MapValues(m) == [i \in 1..Len(m) |-> m[i].value]

RECURSIVE FormatResults(_, _)
FormatResults(results, idx) ==
    IF idx > Len(results) THEN ""
    ELSE "Result " \o ToString(idx) \o ":\n  " \o results[idx].snippet \o "\n"
            \o (IF Len(results[idx].url) > 0 /\ results[idx].url /= "OpenAI Knowledge Base"
                THEN "  Source: " \o results[idx].url \o "\n" ELSE "")
            \o "\n" \o FormatResults(results, idx + 1)

RECURSIVE FormatQueries(_)
FormatQueries(arr) ==
    IF Len(arr) = 0 THEN ""
    ELSE (IF Len(arr[1].results) > 0
          THEN "\nQuery: \"" \o arr[1].query \o "\"\n" \o FormatResults(arr[1].results, 1)
          ELSE "")
            \o FormatQueries(Tail(arr))

formatSearchResultsForPrompt(arr) ==
    LET header == "\n\n=== WEB SEARCH RESULTS (External Verification) ===\n"
    IN  IF Len(arr) = 0 \/ \A i \in 1..Len(arr) : Len(arr[i].results) = 0
        THEN header \o "No additional information found through web search.\n"
        ELSE header \o FormatQueries(arr) \o "=== END WEB SEARCH RESULTS ===\n"

\* reading a property of an object: Null when the object does not have it
Get(obj, f) == IF f \in DOMAIN obj THEN Some(obj[f]) ELSE Null

\* `${x}` for a string property that may be missing
Interpolate(o) == IF o = Null THEN "undefined" ELSE Val(o)

JoinTypeError == ErrorOf("Cannot read properties of undefined (reading 'join')")
LengthTypeError == ErrorOf("Cannot read properties of undefined (reading 'length')")

RMFNotFound ==
    ErrorOf("ESG_RMF.txt not found. Please ensure the file exists in the public "
                \o "directory and is committed to Git.")

\* the company context block both engines start their prompt with; the
\* fixed instruction text of the prompts is left out
CompanyContext(info, extractedText) ==
    "\nCompany Information:\n- Name: " \o Interpolate(Get(info, "companyName"))
        \o "\n- Countries of Operation: " \o Join(info.countriesOfOperation, ", ")
        \o (IF Truthy(extractedText)
            THEN "\nAdditional Information from Documents:\n" \o Prefix(Val(extractedText), 5000)
            ELSE "")

DDQPrompt(info, extractedText, searchResultsText, rmf) ==
    CompanyContext(info, extractedText) \o "\n" \o searchResultsText \o "\n" \o rmf

\* JSON.stringify(ddq, null, 2), without the indentation
DDQSummary(ddq) == "\nDDQ Assessment Summary:\n" \o JSONStringify(ddq) \o "\n"

IMPrompt(info, ddq, extractedText, rmf) ==
    CompanyContext(info, extractedText) \o DDQSummary(ddq) \o rmf

DDQSystemPrompt == "You are an expert ESG assessor."
IMSystemPrompt == "You are an expert ESG investment analyst."

\* generateDDQ reads the four area lists of the parsed result (line 407)
HasAreas(v) == {"riskManagement", "environment", "social", "governance"} \subseteq DOMAIN v

\* an engine that goes on whatever the outcome of `await loadRMF()`
LoadedOrNot(p) == TRUE

\* the engine goes on after `await loadRMF()` only when the call returned
Loaded(p) == pc[p] = "returned"

\* responses and call results
Http(status, body) == [kind |-> "http", status |-> status, body |-> body]
Returned(v) == [kind |-> "return", status |-> 0, body |-> v]
Thrown(e) == [kind |-> "throw", status |-> 0, body |-> e]

\* what the run has done so far
FreshLog ==
    [bodyRead |-> FALSE, loads |-> 0, loaded |-> FALSE, queries |-> 0, failed |-> 0, llm |-> 0]

Routes == {"generate-ddq", "generate-im", "extract-info"}

\* a request body: malformed JSON, or an object with some of the properties
Body(info, ddq, extractedText, text) ==
    [ malformed |-> FALSE, companyInfo |-> info, ddqResult |-> ddq,
      extractedText |-> extractedText, text |-> text ]
MalformedBody == [Body(Null, Null, Null, Null) EXCEPT !.malformed = TRUE]

ServerIdle ==
    /\ rPc = "idle"
    /\ rRoute = "generate-ddq"
    /\ rBody = Body(Null, Null, Null, Null)
    /\ rResp = Null
    /\ rLog = FreshLog
    /\ attempts = 0
    /\ retrying = FALSE
    /\ ddqIssued = {}

\* a request for `route` with `body` reaches the server
Accept(route, body) ==
    /\ rPc = "idle"
    /\ rPc' = "received"
    /\ rRoute' = route
    /\ rBody' = body
    /\ rResp' = Null
    /\ rLog' = FreshLog
    /\ attempts' = 0
    /\ retrying' = FALSE
    /\ UNCHANGED <<rFrom, ddqIssued>>

\* the answer has been taken: the request is over
Release ==
    /\ rPc = "responded"
    /\ rPc' = "idle"
    /\ rRoute' = "generate-ddq"
    /\ rBody' = Body(Null, Null, Null, Null)
    /\ rResp' = Null
    /\ rLog' = FreshLog
    /\ attempts' = 0
    /\ retrying' = FALSE
    /\ UNCHANGED <<rFrom, ddqIssued>>

\* the catch block of a generate route (generate-ddq 29-35, generate-im 33-39)
FallbackMessage(route) ==
    IF route = "generate-ddq" THEN "Failed to generate DDQ"
    ELSE IF route = "generate-im" THEN "Failed to generate IM"
    ELSE "Failed to extract information"

MessageOf(e, route) == IF e.isError THEN e.message ELSE FallbackMessage(route)

\* a caller that is told of a failure without the error
EngineResponseGeneric(outcome) ==
    IF outcome.ok THEN Returned(Val(outcome.value))
    ELSE Thrown(ErrorOf(FallbackMessage(rRoute)))

\* how the run of an engine ends for its caller: the route answers 200 with
\* the result or 500 with the error's message; a direct caller gets the
\* result or the error itself
EngineResponse(outcome) ==
    IF rFrom = "direct"
    THEN IF outcome.ok THEN Returned(Val(outcome.value)) ELSE Thrown(outcome.error)
    ELSE IF outcome.ok THEN Http(200, Val(outcome.value))
    ELSE Http(500, [error |-> MessageOf(outcome.error, rRoute)])

\* the engine returns or throws
Finish(outcome) ==
    /\ rPc' = "responded"
    /\ rResp' = EngineResponse(outcome)
    /\ ddqIssued' =
          IF rRoute = "generate-ddq" /\ outcome.ok
          THEN ddqIssued \cup
                 { [ company |-> Interpolate(Get(Val(rBody.companyInfo), "companyName")),
                     result |-> Val(outcome.value) ] }
          ELSE ddqIssued

\* callLLMJSON(prompt, systemPrompt, provider) runs to the await in callLLM
CallLLMJSONWith(prompt, systemPrompt, provider, log) ==
    /\ gPc /= "awaiting"
    /\ GatewayStart(JSONPrompt(prompt), systemPrompt, provider)
    /\ rPc' = "callingLLM"
    /\ rLog' = [log EXCEPT !.llm = @ + 1]

\* callLLMJSON(prompt, systemPrompt, 'openai'), as the engines and the
\* extract-info route call it
CallLLMJSON(prompt, systemPrompt, log) ==
    CallLLMJSONWith(prompt, Some(systemPrompt), "openai", log)

\* generateDDQ / generateIM is called and runs to `await loadRMF()`
EngineStart(log) ==
    /\ pc[Engine] = "idle"
    /\ LoadRMFEnter(Engine)
    /\ rPc' = "loadingRMF"
    /\ rLog' = [log EXCEPT !.loads = @ + 1]

\* a route without the credential check
NoCredentialUnchecked == FALSE

\* the routes' first check (generate-ddq 7, generate-im 7, extract-info 32)
NoCredential == ~openaiKey /\ ~anthropicKey

ConfigError ==
    [error |-> "API key not configured. Please set OPENAI_API_KEY or "
                   \o "ANTHROPIC_API_KEY environment variable."]

\* POST: the credential check, up to `await request.json()`
RoutePOST ==
    /\ rPc = "received"
    /\ rFrom /= "direct"
    /\ IF NoCredential
       THEN /\ rPc' = "responded"
            /\ rResp' = Http(500, ConfigError)
       ELSE /\ rPc' = "readingBody"
            /\ UNCHANGED rResp
    /\ UNCHANGED <<rFrom, rRoute, rBody, rLog, attempts, retrying, ddqIssued>>
    /\ UNCHANGED <<rmfVars, searchVars, credVars, docVars, gatewayVars>>
    /\ UNCHANGED wizardVars

BodySyntaxError == ErrorOf("Unexpected end of JSON input")

ExtractPrompt(text) == "\nText to analyze:\n" \o Prefix(text, 20000)
ExtractSystemPrompt == "You are an expert at extracting structured information."

\* `await request.json()` settles and the generate-ddq route goes on (17-26)
GenerateDDQBody ==
    /\ rPc = "readingBody"
    /\ rRoute = "generate-ddq"
    /\ LET log == [rLog EXCEPT !.bodyRead = TRUE]
       IN  IF rBody.malformed
           THEN /\ Finish(Throws(BodySyntaxError))
                /\ rLog' = log
                /\ UNCHANGED rmfVars
           ELSE IF rBody.companyInfo = Null
           THEN /\ rPc' = "responded"
                /\ rResp' = Http(400, [error |-> "Company information is required"])
                /\ rLog' = log
                /\ UNCHANGED <<ddqIssued, rmfVars>>
           ELSE /\ EngineStart(log)
                /\ UNCHANGED <<rResp, ddqIssued>>
    /\ UNCHANGED <<rFrom, rRoute, rBody, attempts, retrying>>
    /\ UNCHANGED <<searchVars, credVars, docVars, gatewayVars>>
    /\ UNCHANGED wizardVars

\* `await request.json()` settles and the generate-im route goes on (17-30)
GenerateIMBody ==
    /\ rPc = "readingBody"
    /\ rRoute = "generate-im"
    /\ LET log == [rLog EXCEPT !.bodyRead = TRUE]
       IN  IF rBody.malformed
           THEN /\ Finish(Throws(BodySyntaxError))
                /\ rLog' = log
                /\ UNCHANGED rmfVars
           ELSE IF rBody.companyInfo = Null \/ rBody.ddqResult = Null
           THEN /\ rPc' = "responded"
                /\ rResp' = Http(400, [error |->
                                "Company information and DDQ results are required"])
                /\ rLog' = log
                /\ UNCHANGED <<ddqIssued, rmfVars>>
           ELSE /\ EngineStart(log)
                /\ UNCHANGED <<rResp, ddqIssued>>
    /\ UNCHANGED <<rFrom, rRoute, rBody, attempts, retrying>>
    /\ UNCHANGED <<searchVars, credVars, docVars, gatewayVars>>
    /\ UNCHANGED wizardVars

\* an engine is called without a route around it
DirectCall(route, body) ==
    /\ rFrom = "direct"
    /\ rPc = "idle"
    /\ rRoute' = route
    /\ rBody' = body
    /\ rResp' = Null
    /\ attempts' = 0
    /\ retrying' = FALSE
    /\ EngineStart(FreshLog)
    /\ UNCHANGED <<rFrom, ddqIssued>>

\* the text of the framework the engine got from loadRMF
RMFText(p) == IF ret[p] = Null THEN "undefined" ELSE Val(ret[p])

SearchReset ==
    /\ sPc' = [k \in SearchCalls |-> "idle"]
    /\ sCompany' = [k \in SearchCalls |-> ""]
    /\ sQueries' = [k \in SearchCalls |-> <<>>]
    /\ sIdx' = [k \in SearchCalls |-> 0]
    /\ sResults' = [k \in SearchCalls |-> <<>>]
    /\ sLog' = [k \in SearchCalls |-> <<>>]

\* searchTrackRecord and searchESGPractices are both called and run to
\* their first await (ddq-generator 19-28)
StartSearches(companyName) ==
    /\ \A k \in SearchCalls : sPc[k] = "idle"
    /\ sPc' = [k \in SearchCalls |-> "inFlight"]
    /\ sCompany' = [k \in SearchCalls |-> companyName]
    /\ sQueries' = [k \in SearchCalls |-> IF k = 1 THEN trackRecordQueries ELSE esgQueries]
    /\ sIdx' = [k \in SearchCalls |-> 1]
    /\ sResults' = [k \in SearchCalls |-> <<>>]
    /\ sLog' = [k \in SearchCalls |-> <<>>]

\* `await loadRMF()` settles in the engine
EngineLoaded ==
    /\ rPc = "loadingRMF"
    /\ pc[Engine] \in {"returned", "threw"}
    /\ CallerResume(Engine)
    /\ LET info == Val(rBody.companyInfo)
           log == [rLog EXCEPT !.loaded = (pc[Engine] = "returned")]
       IN  IF ~Loaded(Engine)
           THEN /\ Finish(Throws(RMFNotFound))
                /\ rLog' = log
                /\ UNCHANGED <<searchVars, gatewayVars>>
           ELSE IF rRoute = "generate-ddq"
           THEN /\ StartSearches(Interpolate(Get(info, "companyName")))
                /\ rPc' = "gathering"
                /\ rLog' = [log EXCEPT !.queries = Cardinality(SearchCalls)]
                /\ UNCHANGED <<rResp, ddqIssued, gatewayVars>>
           ELSE IF "countriesOfOperation" \notin DOMAIN info
           THEN /\ Finish(Throws(JoinTypeError))
                /\ rLog' = log
                /\ UNCHANGED <<searchVars, gatewayVars>>
           ELSE /\ CallLLMJSON(IMPrompt(info, rBody.ddqResult, rBody.extractedText,
                                        RMFText(Engine)),
                               IMSystemPrompt, log)
                /\ UNCHANGED <<rResp, ddqIssued, searchVars>>
    /\ UNCHANGED <<rFrom, rRoute, rBody, attempts, retrying, credVars, docVars>>
    /\ UNCHANGED wizardVars

\* what the evidence provider does with a query: without the OpenAI key the
\* request is refused, with it the request is answered
EvidenceOutcomes ==
    IF openaiKey THEN {Answered(Some("Fined in 2019 for a data breach."))} ELSE {Threw}

\* a query of one of generateDDQ's two batches settles in one of `outcomes`
EvidenceSettle(outcomes) ==
    /\ \E k \in SearchCalls :
          /\ \E o \in outcomes : SearchSettle(k, o)
          /\ rLog' = [rLog EXCEPT
                         !.queries = @ + (IF sPc'[k] = "inFlight" THEN 1 ELSE 0),
                         !.failed = @ + (IF sLog'[k][Len(sLog'[k])].threw THEN 1 ELSE 0)]
    /\ UNCHANGED <<rPc, rFrom, rRoute, rBody, rResp, attempts, retrying, ddqIssued>>
    /\ UNCHANGED <<rmfVars, credVars, docVars, gatewayVars>>
    /\ UNCHANGED wizardVars

\* a query settles as the credential configuration has it
EvidenceAnswer ==
    /\ rPc = "gathering"
    /\ EvidenceSettle(EvidenceOutcomes)

\* a query settles, answered or failed, whatever the other queries did
EvidenceAnswerOrFailure ==
    /\ rPc = "gathering"
    /\ EvidenceSettle({Threw, Answered(Some("Fined in 2019 for a data breach."))})

\* the delay after a stored answer is over in one of the two batches
EvidenceDelay ==
    /\ rPc = "gathering"
    /\ \E k \in SearchCalls :
          /\ SearchDelayElapsed(k)
          /\ rLog' = [rLog EXCEPT !.queries = @ + (IF sPc'[k] = "inFlight" THEN 1 ELSE 0)]
    /\ UNCHANGED <<rPc, rFrom, rRoute, rBody, rResp, attempts, retrying, ddqIssued>>
    /\ UNCHANGED <<rmfVars, credVars, docVars, gatewayVars>>
    /\ UNCHANGED wizardVars

\* a merge that puts the practice entries first
allSearchResultsSwapped(trackRecordResults, esgPracticeResults) ==
    esgPracticeResults \o trackRecordResults

\* [...trackRecordResults, ...esgPracticeResults] (ddq-generator 31)
allSearchResults(trackRecordResults, esgPracticeResults) ==
    trackRecordResults \o esgPracticeResults

\* Promise.all settles: both batches have returned (ddq-generator 28-372)
EvidenceDone ==
    /\ rPc = "gathering"
    /\ \A k \in SearchCalls : sPc[k] = "returned"
    /\ LET info == Val(rBody.companyInfo)
           searchResultsText == formatSearchResultsForPrompt(
                   allSearchResults(MapValues(sResults[1]), MapValues(sResults[2])))
       IN  IF "countriesOfOperation" \notin DOMAIN info
           THEN /\ Finish(Throws(JoinTypeError))
                /\ UNCHANGED <<rLog, gatewayVars>>
           ELSE /\ CallLLMJSON(DDQPrompt(info, rBody.extractedText, searchResultsText,
                                         RMFText(Engine)),
                               DDQSystemPrompt, rLog)
                /\ UNCHANGED <<rResp, ddqIssued>>
    /\ SearchReset
    /\ UNCHANGED <<rFrom, rRoute, rBody, attempts, retrying, rmfVars, credVars, docVars>>
    /\ UNCHANGED wizardVars

\* what the LLM provider may do with a request of the application: fail, give
\* no content or prose, or give JSON of the kind it was asked for (or, for an
\* assessment, of the other kind)
LLMOutcomes(route) ==
    { Failure("authentication", ErrorOf("401 Incorrect API key provided: sk-bad.")),
      Failure("throttling", ErrorOf("429 Rate limit reached for requests")),
      Failure("other", NonError("aborted")),
      Answer(Null),
      Answer(Some("I cannot help with that.")) }
    \cup (IF route = "generate-ddq"
          THEN { Answer(Some(Fence \o "json\n" \o DDQ1Text \o "\n" \o Fence)),
                 Answer(Some(GoldenDDQText)),
                 Answer(Some("Here is the result: " \o IM1Text \o " Thanks!")) }
          ELSE IF route = "generate-im"
          THEN { Answer(Some("Here is the result: " \o IM1Text \o " Thanks!")) }
          ELSE { Answer(Some(ProfileText(p))) :
                    p \in {Profile(c) : c \in Companies} \cup {Unnamed, Terse} })

\* the provider call of the running callLLMJSON settles
LLMAnswer ==
    /\ rPc = "callingLLM"
    /\ \E o \in LLMOutcomes(rRoute) : GatewaySettle(o)
    /\ UNCHANGED <<rPc, rFrom, rRoute, rBody, rResp, rLog, attempts, retrying, ddqIssued>>
    /\ UNCHANGED <<rmfVars, searchVars, credVars, docVars>>
    /\ UNCHANGED wizardVars

\* callLLMJSON settles in generateDDQ (372-408) or generateIM (367-372)
GenerateDone ==
    /\ rPc = "callingLLM"
    /\ rRoute \in {"generate-ddq", "generate-im"}
    /\ GatewayTake
    /\ LET result == CallLLMJSONResult
       IN  Finish(IF rRoute = "generate-ddq" /\ result.ok /\ ~HasAreas(Val(result.value))
                  THEN Throws(LengthTypeError)
                  ELSE result)
    /\ UNCHANGED <<rFrom, rRoute, rBody, rLog, attempts, retrying>>
    /\ UNCHANGED <<rmfVars, searchVars, credVars, docVars>>
    /\ UNCHANGED wizardVars

-----------------------------------------------------------------------------
(* extract-info route *)

\* const maxAttempts = 2
maxAttempts == 2

\* the request id put in every answer of the route
RequestId == "extract-0"

\* !x || x.trim().length === 0
Missing(info, f) == f \notin DOMAIN info \/ Len(Trim(info[f])) = 0
\* x.toLowerCase() === 'not specified'
NotSpecified(info, f) == f \in DOMAIN info /\ ToLowerCase(info[f]) = "not specified"
\* !x || x.trim().length < 50
TooShort(info, f) == f \notin DOMAIN info \/ Len(Trim(info[f])) < 50
\* !Array.isArray(x) || x.length === 0, for a property that is an array when present
NoCountries(info) ==
    "countriesOfOperation" \notin DOMAIN info \/ Len(info.countriesOfOperation) = 0
\* x?.length || 0
LengthOf(info, f) == IF f \in DOMAIN info THEN Len(info[f]) ELSE 0

When(cond, msg) == IF cond THEN <<msg>> ELSE <<>>

\* the validation made on each attempt's result (lines 203-238)
ValidationErrors(info) ==
    When(Missing(info, "companyName") \/ NotSpecified(info, "companyName"),
         "companyName is missing or empty")
    \o When(Missing(info, "sector") \/ NotSpecified(info, "sector"),
            "sector is missing or empty")
    \o When(Missing(info, "subSector") \/ NotSpecified(info, "subSector"),
            "subSector is missing or empty")
    \o When(NoCountries(info),
            "countriesOfOperation is missing or empty (need at least 1 country)")
    \o When(Missing(info, "numberOfEmployees") \/ NotSpecified(info, "numberOfEmployees"),
            "numberOfEmployees is missing or empty")
    \o When(TooShort(info, "businessActivities"),
            "businessActivities is missing or too short (need at least 50 characters, got "
                \o ToString(LengthOf(info, "businessActivities")) \o ")")
    \o When(TooShort(info, "productDescription"),
            "productDescription is missing or too short (need at least 50 characters, got "
                \o ToString(LengthOf(info, "productDescription")) \o ")")

\* a final validation that looks at the company name only
FinalValidationNameOnly(info) ==
    When(Missing(info, "companyName"), "companyName is required")

\* the validation made after the retry loop (lines 297-319)
FinalValidationErrors(info) ==
    When(Missing(info, "companyName"), "companyName is required")
    \o When(Missing(info, "sector"), "sector is required")
    \o When(Missing(info, "subSector"), "subSector is required")
    \o When(NoCountries(info), "countriesOfOperation must have at least one country")
    \o When(Missing(info, "numberOfEmployees"), "numberOfEmployees is required")
    \o When(TooShort(info, "businessActivities"),
            "businessActivities must be at least 50 characters")
    \o When(TooShort(info, "productDescription"),
            "productDescription must be at least 50 characters")

RetryPrompt(prompt, validationErrors) ==
    prompt \o "\n\nRETRY ATTEMPT - Previous extraction was incomplete. "
           \o "The following fields were missing or invalid:\n"
           \o Join([i \in 1..Len(validationErrors) |-> "- " \o validationErrors[i]], "\n")

RetrySystemPrompt ==
    "You are an expert at extracting structured information. "
        \o "The previous extraction was incomplete."

ExtractError(message) == Http(500, [error |-> message, requestId |-> RequestId])

\* what the route answers once the retry loop has left it with `info` (282-351);
\* the diagnostic `debug` property of the 422 answer is left out
AfterLoop(info) ==
    LET finalValidationErrors == FinalValidationErrors(info)
    IN  IF Len(finalValidationErrors) > 0
        THEN Http(422, [ error |->
                           "Could not extract complete company information. "
                               \o "Missing or incomplete: "
                               \o Join(finalValidationErrors, ", ")
                               \o ". Please ensure the document contains clear "
                               \o "company details and try again.",
                         requestId |-> RequestId ])
        ELSE Http(200, [requestId |-> RequestId] @@ info)

\* `await request.json()` settles and the extract-info route goes on, up to
\* the first attempt's callLLMJSON (lines 45-199)
ExtractBody ==
    /\ rPc = "readingBody"
    /\ rRoute = "extract-info"
    /\ LET log == [rLog EXCEPT !.bodyRead = TRUE]
           text == rBody.text
       IN  IF rBody.malformed \/ ~Truthy(text) \/ Len(Trim(Val(text))) = 0
           THEN /\ rPc' = "responded"
                /\ rResp' = IF rBody.malformed
                            THEN ExtractError(BodySyntaxError.message)
                            ELSE IF ~Truthy(text)
                            THEN Http(400, [error |-> "No text provided",
                                            requestId |-> RequestId])
                            ELSE Http(400, [error |-> "Text is empty after trimming",
                                            requestId |-> RequestId])
                /\ rLog' = log
                /\ UNCHANGED <<attempts, gatewayVars>>
           ELSE /\ attempts' = 1
                /\ CallLLMJSON(ExtractPrompt(Val(text)), ExtractSystemPrompt, log)
                /\ UNCHANGED rResp
    /\ UNCHANGED <<rFrom, rRoute, rBody, retrying, ddqIssued>>
    /\ UNCHANGED <<rmfVars, searchVars, credVars, docVars>>
    /\ UNCHANGED wizardVars

\* the route answers
ExtractRespond(resp) ==
    /\ rPc' = "responded"
    /\ rResp' = resp
    /\ GatewayTake
    /\ UNCHANGED <<rLog, attempts, retrying>>

\* the loop starts its next attempt (lines 181-199)
NextAttempt ==
    /\ attempts' = attempts + 1
    /\ retrying' = FALSE
    /\ CallLLMJSON(ExtractPrompt(Val(rBody.text)), ExtractSystemPrompt, rLog)
    /\ UNCHANGED rResp

\* a callLLMJSON of the retry loop settles (lines 181-280)
ExtractDone ==
    /\ rPc = "callingLLM"
    /\ rRoute = "extract-info"
    /\ gPc \in {"returned", "threw"}
    /\ LET result == CallLLMJSONResult
           info == Val(result.value)
           validationErrors == ValidationErrors(info)
       IN  IF ~result.ok
           THEN \* catch (extractionError)
                IF attempts >= maxAttempts
                THEN ExtractRespond(ExtractError(MessageOf(result.error, "extract-info")))
                ELSE NextAttempt
           ELSE IF retrying \/ Len(validationErrors) = 0
           THEN \* the loop is left with a truthy companyInfo
                ExtractRespond(AfterLoop(info))
           ELSE IF attempts < maxAttempts
           THEN /\ retrying' = TRUE
                /\ CallLLMJSON(RetryPrompt(ExtractPrompt(Val(rBody.text)), validationErrors),
                               RetrySystemPrompt, rLog)
                /\ UNCHANGED <<rResp, attempts>>
           ELSE ExtractRespond(ExtractError(
                    "Extraction incomplete after " \o ToString(maxAttempts)
                        \o " attempts. Missing fields: " \o Join(validationErrors, ", ")))
    /\ UNCHANGED <<rFrom, rRoute, rBody, ddqIssued>>
    /\ UNCHANGED <<rmfVars, searchVars, credVars, docVars>>
    /\ UNCHANGED wizardVars

-----------------------------------------------------------------------------
(* Wizard (the page that drives the routes) and other callers *)
(* The message shown to the user and the spinner flag `extracting` are      *)
(* display state and are left out.                                          *)

WizardStart ==
    /\ step = "upload"
    /\ companyInfo = <<>>
    /\ ddqResult = Null
    /\ imResult = Null
    /\ loading = FALSE
    /\ uploadedText = ""

Steps == <<"upload", "form", "ddq", "im">>

canNavigateToStep(targetStep) ==
    IF targetStep = "upload" THEN TRUE
    ELSE IF targetStep = "form" THEN Len(uploadedText) > 0 \/ DOMAIN companyInfo /= {}
    ELSE IF targetStep = "ddq" THEN ddqResult /= Null
    ELSE IF targetStep = "im" THEN imResult /= Null
    ELSE FALSE

\* the step the Back button of a step leads to (lines 799, 973, 1168)
BackOf(s) == IF s = "form" THEN "upload" ELSE IF s = "ddq" THEN "form"
             ELSE IF s = "im" THEN "ddq" ELSE s

\* The server's steps do not read the wizard's state, so a click made while
\* a request is being served is taken when its response is about to arrive.
UserCanAct == rFrom = "wizard" /\ rPc \in {"idle", "responded"}

\* a click on a step of the progress bar, or on Back
Navigate ==
    /\ UserCanAct
    /\ \E i \in 1..Len(Steps) :
          /\ Steps[i] /= step
          /\ canNavigateToStep(Steps[i]) \/ Steps[i] = BackOf(step)
          /\ step' = Steps[i]
    /\ UNCHANGED <<companyInfo, ddqResult, imResult, loading, uploadedText>>
    /\ UNCHANGED <<rPc, rFrom, rRoute, rBody, rResp, rLog, attempts, retrying, ddqIssued>>
    /\ UNCHANGED <<rmfVars, searchVars, credVars, docVars, gatewayVars>>

\* the user types another company name into the form (line 715)
EditCompanyName ==
    /\ UserCanAct
    /\ step = "form"
    /\ \E name \in Companies :
          /\ Get(companyInfo, "companyName") /= Some(name)
          /\ companyInfo' = [companyName |-> name] @@ companyInfo
    /\ UNCHANGED <<step, ddqResult, imResult, loading, uploadedText>>
    /\ UNCHANGED <<rPc, rFrom, rRoute, rBody, rResp, rLog, attempts, retrying, ddqIssued>>
    /\ UNCHANGED <<rmfVars, searchVars, credVars, docVars, gatewayVars>>

PastedTexts == {" Acme runs clinics in Vietnam.\n"}

\* handlePasteText, up to `await fetch('/api/extract-info')` (lines 254-279)
handlePasteText ==
    /\ rFrom = "wizard"
    /\ step = "upload"
    /\ ~loading
    /\ \E pastedText \in PastedTexts :
          /\ Len(Trim(pastedText)) > 0
          /\ uploadedText' = Trim(pastedText)
          /\ Accept("extract-info", Body(Null, Null, Null, Some(Trim(pastedText))))
    /\ loading' = TRUE
    /\ UNCHANGED <<step, companyInfo, ddqResult, imResult>>
    /\ UNCHANGED <<rmfVars, searchVars, credVars, docVars, gatewayVars>>

\* response.ok
Ok(resp) == resp.status >= 200 /\ resp.status <= 299

hasRequiredFields(extracted) ==
    /\ ~Missing(extracted, "companyName")
    /\ ~Missing(extracted, "sector")
    /\ ~Missing(extracted, "subSector")
    /\ ~NoCountries(extracted)
    /\ ~Missing(extracted, "numberOfEmployees")
    /\ ~TooShort(extracted, "businessActivities")
    /\ ~TooShort(extracted, "productDescription")

cleanValue(val) ==
    IF ~Truthy(val) \/ Len(Trim(Val(val))) = 0 THEN ""
    ELSE IF ToLowerCase(Val(val)) = "not specified" THEN ""
    ELSE Trim(Val(val))

KeepCountry(c) == Len(c) > 0 /\ ToLowerCase(c) /= "not specified" /\ Len(Trim(c)) > 0

cleanedData(extracted) ==
    [ companyName |-> cleanValue(Get(extracted, "companyName")),
      sector |-> cleanValue(Get(extracted, "sector")),
      subSector |-> cleanValue(Get(extracted, "subSector")),
      countriesOfOperation |-> SelectSeq(extracted.countriesOfOperation, KeepCountry),
      numberOfEmployees |-> cleanValue(Get(extracted, "numberOfEmployees")),
      businessActivities |-> cleanValue(Get(extracted, "businessActivities")),
      productDescription |-> cleanValue(Get(extracted, "productDescription")),
      currentESGPractices |-> cleanValue(Get(extracted, "currentESGPractices")),
      policies |-> cleanValue(Get(extracted, "policies")),
      complianceStatus |-> cleanValue(Get(extracted, "complianceStatus")) ]

\* handlePasteText, from the response of extract-info on (lines 281-378)
handlePasteTextResume ==
    /\ rFrom = "wizard"
    /\ Release
    /\ rRoute = "extract-info"
    /\ loading' = FALSE
    /\ LET extracted == rResp.body
       IN  IF Ok(rResp) /\ "error" \notin DOMAIN extracted
           THEN IF ~hasRequiredFields(extracted)
                THEN UNCHANGED <<step, companyInfo>>
                ELSE /\ companyInfo' = cleanedData(extracted)
                     /\ step' = "form"
           ELSE /\ step' = "form"
                /\ UNCHANGED companyInfo
    /\ UNCHANGED <<ddqResult, imResult, uploadedText>>
    /\ UNCHANGED <<rmfVars, searchVars, credVars, docVars, gatewayVars>>

RequiredInputs == { "companyName", "sector", "subSector", "countriesOfOperation",
                    "numberOfEmployees", "businessActivities", "productDescription" }

\* the form submits only when every `required` input has a value (706-792)
FormValid == \A f \in RequiredInputs : f \in DOMAIN companyInfo /\ Len(companyInfo[f]) > 0

\* handleFormSubmit, up to `await fetch('/api/generate-ddq')` (lines 403-416)
handleFormSubmit ==
    /\ rFrom = "wizard"
    /\ step = "form"
    /\ ~loading
    /\ FormValid
    /\ loading' = TRUE
    /\ Accept("generate-ddq", Body(Some(companyInfo), Null, Some(uploadedText), Null))
    /\ UNCHANGED <<step, companyInfo, ddqResult, imResult, uploadedText>>
    /\ UNCHANGED <<rmfVars, searchVars, credVars, docVars, gatewayVars>>

\* handleFormSubmit, from the response on (lines 418-427)
handleFormSubmitResume ==
    /\ rFrom = "wizard"
    /\ Release
    /\ rRoute = "generate-ddq"
    /\ loading' = FALSE
    /\ IF Ok(rResp)
       THEN /\ ddqResult' = Some(rResp.body)
            /\ step' = "ddq"
       ELSE UNCHANGED <<ddqResult, step>>
    /\ UNCHANGED <<companyInfo, imResult, uploadedText>>
    /\ UNCHANGED <<rmfVars, searchVars, credVars, docVars, gatewayVars>>

\* handleGenerateIM, up to `await fetch('/api/generate-im')` (lines 430-445);
\* its button is on the DDQ step, shown while a DDQ result is held (817, 979)
handleGenerateIM ==
    /\ rFrom = "wizard"
    /\ step = "ddq"
    /\ ~loading
    /\ ddqResult /= Null
    /\ loading' = TRUE
    /\ Accept("generate-im", Body(Some(companyInfo), ddqResult, Some(uploadedText), Null))
    /\ UNCHANGED <<step, companyInfo, ddqResult, imResult, uploadedText>>
    /\ UNCHANGED <<rmfVars, searchVars, credVars, docVars, gatewayVars>>

\* handleGenerateIM, from the response on (lines 447-456)
handleGenerateIMResume ==
    /\ rFrom = "wizard"
    /\ Release
    /\ rRoute = "generate-im"
    /\ loading' = FALSE
    /\ IF Ok(rResp)
       THEN /\ imResult' = Some(rResp.body)
            /\ step' = "im"
       ELSE UNCHANGED <<imResult, step>>
    /\ UNCHANGED <<companyInfo, ddqResult, uploadedText>>
    /\ UNCHANGED <<rmfVars, searchVars, credVars, docVars, gatewayVars>>

\* request bodies a client other than the wizard posts to a route
ApiBodies(route) ==
    IF route = "generate-ddq"
    THEN { MalformedBody, Body(Null, Null, Null, Null),
           Body(Some(Profile("Acme")), Null, Null, Null),
           Body(Some(NameOnly), Null, Null, Null) }
    ELSE IF route = "generate-im"
    THEN { MalformedBody, Body(Some(Profile("Acme")), Null, Null, Null),
           Body(Null, Some(DDQ1), Null, Null),
           Body(Some(Profile("Acme")), Some(DDQ1), Null, Null) }
    ELSE { MalformedBody, Body(Null, Null, Null, Null),
           Body(Null, Null, Null, Some("")), Body(Null, Null, Null, Some(" \n")),
           Body(Null, Null, Null, Some("Acme runs clinics in Vietnam.")) }

\* a client other than the wizard posts a request
ApiRequest ==
    /\ rFrom = "api"
    /\ \E route \in Routes : \E body \in ApiBodies(route) : Accept(route, body)
    /\ UNCHANGED <<step, companyInfo, ddqResult, imResult, loading, uploadedText>>
    /\ UNCHANGED <<rmfVars, searchVars, credVars, docVars, gatewayVars>>

\* arguments of a direct call of an engine
DirectArgs(route) ==
    IF route = "generate-ddq"
    THEN { Body(Some(Profile("Acme")), Null, Null, Null) }
    ELSE { Body(Some(Profile("Acme")), Null, Null, Null),
           Body(Some(Profile("Acme")), Some(DDQ1), Null, Null) }

\* generateDDQ or generateIM is called directly
EngineCall ==
    /\ \E route \in {"generate-ddq", "generate-im"} :
          \E body \in DirectArgs(route) : DirectCall(route, body)
    /\ UNCHANGED <<step, companyInfo, ddqResult, imResult, loading, uploadedText>>
    /\ UNCHANGED <<searchVars, credVars, docVars, gatewayVars>>

\* the client or the direct caller takes the answer
TakeAnswer ==
    /\ rFrom \in {"api", "direct"}
    /\ Release
    /\ UNCHANGED <<step, companyInfo, ddqResult, imResult, loading, uploadedText>>
    /\ UNCHANGED <<rmfVars, searchVars, credVars, docVars, gatewayVars>>

-----------------------------------------------------------------------------
(* Text extraction of uploaded files: document-processor *)

\* String.prototype.endsWith
EndsWith(s, t) == Len(s) >= Len(t) /\ SubSeq(s, Len(s) - Len(t) + 1, Len(s)) = t

\* how an awaited library or provider call settles
Rejected(msg) == [rejected |-> TRUE, message |-> msg]

DocIdle ==
    /\ geminiKey = TRUE
    /\ dPc = "idle"
    /\ dFile = Null
    /\ dOut = Null
    /\ errorMessage = ""
    /\ dClock = 0
    /\ dTimer = "unset"
    /\ dProvider = "none"

\* the extraction ends by returning v / by throwing e
DocEnds(result) ==
    /\ dPc' = IF result.ok THEN "returned" ELSE "threw"
    /\ dOut' = Some(result)

(* extractTextWithGemini (the PDF branch of the Gemini-based processor) *)

\* the delay of the timeout's setTimeout, 240000 ms, in minutes
TimeoutMinutes == 4

\* how long the clock of the model runs
MaxClock == 6

GeminiKeyMissing ==
    ErrorOf("GEMINI_API_KEY is not set. Cannot use Gemini API for PDF extraction.")
GeminiTimeout == ErrorOf("Gemini API call timed out after 4 minutes")
GeminiNoText == ErrorOf("Failed to extract text from Gemini response")
GeminiEmptyText == ErrorOf("Gemini API returned empty text")

\* the errors of the catch block (lines 113-133)
GeminiAuthFailed ==
    ErrorOf("Gemini API authentication failed. "
                \o "Please check your GEMINI_API_KEY environment variable.")
PdfCorrupted ==
    ErrorOf("The PDF file appears to be corrupted or invalid. Please try a different file.")
PdfEncrypted ==
    ErrorOf("The PDF file is encrypted or password-protected. "
                \o "Please remove the password and try again.")
PdfTooLarge ==
    ErrorOf("The PDF file is too large. "
                \o "Please try a smaller file or split it into multiple files.")
PdfTimedOut ==
    ErrorOf("PDF processing timed out. The file may be too large or complex. "
                \o "Please try a smaller file or split it into multiple files.")
GeminiFailed(msg) ==
    ErrorOf("Failed to extract text from PDF: " \o msg
                \o ". Please try converting the PDF to text format "
                \o "or use a Word document instead.")

\* the catch block of extractTextWithGemini (lines 102-134)
GeminiCatch(msg) ==
    IF Includes(msg, "GEMINI_API_KEY") \/ Includes(msg, "API key")
          \/ Includes(msg, "authentication")
    THEN GeminiAuthFailed
    ELSE IF Includes(msg, "Invalid PDF") \/ Includes(msg, "corrupted")
              \/ Includes(msg, "malformed")
    THEN PdfCorrupted
    ELSE IF Includes(msg, "encrypted") \/ Includes(msg, "password")
    THEN PdfEncrypted
    ELSE IF Includes(msg, "size") \/ Includes(msg, "too large")
    THEN PdfTooLarge
    ELSE IF Includes(msg, "timed out") \/ Includes(msg, "timeout")
    THEN PdfTimedOut
    ELSE GeminiFailed(msg)

\* a generateContent result: response.text() gives `text` or throws, and
\* `parts` are the texts of the first candidate's parts, Null without one
GeminiResponse(textThrows, text, parts) ==
    [rejected |-> FALSE, textThrows |-> textThrows, text |-> text, parts |-> parts]

\* lines 74-101: the text of a response, or what is thrown inside the try
GeminiText(o, fileName) ==
    IF o.textThrows /\ o.parts = Null
    THEN Throws(GeminiNoText)
    ELSE LET text == IF o.textThrows THEN Join(Val(o.parts), "") ELSE o.text
         IN  IF Len(text) = 0 \/ Len(Trim(text)) = 0
             THEN Throws(GeminiEmptyText)
             ELSE Returns([text |-> Trim(text), metadata |-> [title |-> fileName]])

\* what extractTextWithGemini ends with once the race is won by outcome o
\* (lines 61-134)
GeminiSettled(o, fileName) ==
    LET tried == IF o.rejected THEN Throws(ErrorOf(o.message)) ELSE GeminiText(o, fileName)
    IN  IF tried.ok THEN tried ELSE Throws(GeminiCatch(tried.error.message))

\* an extraction without the timeout promise
timeoutPromiseNever == "unset"

\* new Promise((_, reject) => setTimeout(() => reject(...), 240000))
timeoutPromise == "armed"

PdfNames == {"deck.pdf", "Scan 2024.PDF"}

\* extractTextWithGemini(buffer, fileName) runs to the await of the race
\* (lines 36-72)
GeminiCall ==
    /\ dPc = "idle"
    /\ \E fileName \in PdfNames : dFile' = Some(fileName)
    /\ IF ~geminiKey
       THEN /\ DocEnds(Throws(GeminiKeyMissing))
            /\ UNCHANGED <<dTimer, dProvider>>
       ELSE /\ dPc' = "racing"
            /\ dTimer' = timeoutPromise
            /\ dProvider' = "pending"
            /\ UNCHANGED dOut
    /\ UNCHANGED <<geminiKey, errorMessage, dClock>>
    /\ UNCHANGED <<rmfVars, searchVars, credVars, gatewayVars, serverVars, wizardVars>>

\* a minute passes; a timer that is due fires before time goes on
Tick ==
    /\ dPc /= "idle"
    /\ dClock < MaxClock
    /\ dTimer = "armed" => dClock < TimeoutMinutes
    /\ dClock' = dClock + 1
    /\ UNCHANGED <<geminiKey, dPc, dFile, dOut, errorMessage, dTimer, dProvider>>
    /\ UNCHANGED <<rmfVars, searchVars, credVars, gatewayVars, serverVars, wizardVars>>

\* the setTimeout callback runs and rejects timeoutPromise (line 58); a race
\* that is still open settles with that rejection
TimerFires ==
    /\ dTimer = "armed"
    /\ dClock = TimeoutMinutes
    /\ dTimer' = "fired"
    /\ IF dPc = "racing"
       THEN DocEnds(GeminiSettled(Rejected(GeminiTimeout.message), Val(dFile)))
       ELSE UNCHANGED <<dPc, dOut>>
    /\ UNCHANGED <<geminiKey, dFile, errorMessage, dClock, dProvider>>
    /\ UNCHANGED <<rmfVars, searchVars, credVars, gatewayVars, serverVars, wizardVars>>

\* what the provider may do with the request
GeminiOutcomes ==
    { GeminiResponse(FALSE, " Acme runs clinics in Vietnam.\n", Null),
      GeminiResponse(FALSE, " \n", Null),
      GeminiResponse(TRUE, "", Some(<<"Acme ", "", "runs clinics.">>)),
      GeminiResponse(TRUE, "", Some(<<"", " ">>)),
      GeminiResponse(TRUE, "", Null),
      Rejected("API key not valid. Please pass a valid API key."),
      Rejected("The document is encrypted"),
      Rejected("Request payload size exceeds the limit"),
      Rejected("fetch failed") }

\* model.generateContent settles (lines 62-70); a race that is still open
\* settles with it
ProviderSettles ==
    /\ dProvider = "pending"
    /\ dProvider' = "settled"
    /\ \E o \in GeminiOutcomes :
          IF dPc = "racing"
          THEN DocEnds(GeminiSettled(o, Val(dFile)))
          ELSE UNCHANGED <<dPc, dOut>>
    /\ UNCHANGED <<geminiKey, dFile, errorMessage, dClock, dTimer>>
    /\ UNCHANGED <<rmfVars, searchVars, credVars, gatewayVars, serverVars, wizardVars>>

(* extractTextFromFile (the pdfjs-based processor) *)

PdfMime == "application/pdf"
DocxMime == "application/vnd.openxmlformats-officedocument.wordprocessingml.document"

\* what a file really is: a PDF with text, a scanned PDF, an encrypted PDF,
\* a damaged PDF, a Word document or plain text
Contents ==
    { [kind |-> "pdf", cause |-> "none", text |-> "",
       pages |-> <<"Acme runs clinics.", "", " Page two ">>],
      [kind |-> "pdf", cause |-> "noText", text |-> "", pages |-> <<"", "  ">>],
      [kind |-> "pdf", cause |-> "encrypted", text |-> "", pages |-> <<>>],
      [kind |-> "pdf", cause |-> "corrupted", text |-> "", pages |-> <<>>],
      [kind |-> "docx", cause |-> "none", text |-> "Memo text", pages |-> <<>>],
      [kind |-> "docx", cause |-> "none", text |-> " ", pages |-> <<>>],
      [kind |-> "plain", cause |-> "none", text |-> "Acme", pages |-> <<>>],
      [kind |-> "plain", cause |-> "none", text |-> " \n", pages |-> <<>>] }

FileTypes == {PdfMime, DocxMime, "text/plain", "image/png", ""}
FileNames == {"deck.pdf", "Scan.PDF", "memo.docx", "notes.txt", "logo.png"}

Files == [type : FileTypes, name : FileNames, content : Contents]

\* the branch extractTextFromFile takes for a file (lines 53, 181-184, 209)
BranchOf(file) ==
    LET fileName == ToLowerCase(file.name)
    IN  IF file.type = PdfMime \/ EndsWith(fileName, ".pdf") THEN "pdf"
        ELSE IF file.type = DocxMime \/ EndsWith(fileName, ".docx") THEN "docx"
        ELSE IF file.type = "text/plain" \/ EndsWith(fileName, ".txt") THEN "text"
        ELSE "unsupported"

\* the errors extractTextFromFile throws by itself
NoTextExtracted ==
    ErrorOf("No text extracted from PDF - document may be image-based, encrypted, or empty")
PdfNoText ==
    ErrorOf("No text could be extracted from the PDF. The document may be image-based "
                \o "(scanned). Please use OCR or convert to text format.")
PdfParseFailed(msg) ==
    ErrorOf("Failed to parse PDF: " \o msg
                \o ". Please try converting the PDF to text format "
                \o "or use a Word document instead.")
WordNoText == ErrorOf("No text extracted from Word document")
TextFileEmpty == ErrorOf("Text file is empty")
UnsupportedFileType(fileType) ==
    ErrorOf("Unsupported file type: " \o fileType
                \o ". Please upload PDF, Word (.docx), or text files.")

\* pdfjs-dist on the bytes of a file: the page texts, or a rejection
PdfJsLoaded(pages) == [rejected |-> FALSE, pages |-> pages]
WorkerFailure == Rejected("Setting up fake worker failed")
PdfJsOutcomes(content) ==
    { IF content.kind /= "pdf" \/ content.cause = "corrupted"
      THEN Rejected("Invalid PDF structure.")
      ELSE IF content.cause = "encrypted"
      THEN Rejected("No password given")
      ELSE PdfJsLoaded(content.pages),
      WorkerFailure }

\* the page loop (lines 77-99)
RECURSIVE FullText(_)
FullText(pages) ==
    IF Len(pages) = 0 THEN ""
    ELSE LET pageText == Trim(pages[1])
         IN  (IF Len(pageText) > 0 THEN pageText \o "\n\n" ELSE "") \o FullText(Tail(pages))

\* lines 56-133: what the try block of the PDF branch ends with
PdfTry(o) ==
    IF o.rejected THEN Throws(ErrorOf(o.message))
    ELSE LET fullText == FullText(o.pages)
         IN  IF Len(fullText) = 0 \/ Len(Trim(fullText)) = 0
             THEN Throws(NoTextExtracted)
             ELSE Returns([text |-> Trim(fullText), metadata |-> [pages |-> Len(o.pages)]])

\* the tests of the PDF catch block (lines 143-153): the error it throws,
\* Null when it goes on to the fallback
PdfCatch(msg) ==
    IF Includes(msg, "Invalid PDF") \/ Includes(msg, "corrupted")
          \/ Includes(msg, "malformed") \/ Includes(msg, "Invalid PDF structure")
    THEN Some(PdfCorrupted)
    ELSE IF Includes(msg, "encrypted") \/ Includes(msg, "password")
              \/ Includes(msg, "password required")
    THEN Some(PdfEncrypted)
    ELSE IF Includes(msg, "No text extracted") \/ Includes(msg, "image-based")
              \/ Includes(msg, "No text content")
    THEN Some(PdfNoText)
    ELSE Null

\* pdf-parse on the bytes of a file: its text, or a rejection
PdfParseOutcome(content) ==
    IF content.kind = "pdf" /\ content.cause \in {"none", "noText"}
    THEN [rejected |-> FALSE, text |-> Join(content.pages, "\n\n"),
          numpages |-> Len(content.pages)]
    ELSE Rejected("Invalid PDF structure")

\* mammoth on the bytes of a file: the raw text, or a rejection
MammothOutcome(content) ==
    IF content.kind = "docx"
    THEN [rejected |-> FALSE, value |-> content.text]
    ELSE Rejected("Can't find end of central directory : is this a zip file ?")

\* Buffer.from(buffer).toString('utf-8')
Utf8(content) ==
    IF content.kind = "plain" THEN content.text
    ELSE IF content.kind = "pdf" THEN "%PDF-1.7\n"
    ELSE "PK\n"

\* extractTextFromFile(file) runs to `await file.arrayBuffer()` (lines 36-48)
ExtractCall ==
    /\ dPc = "idle"
    /\ \E file \in Files : dFile' = Some(file)
    /\ dPc' = "readingBuffer"
    /\ UNCHANGED <<geminiKey, dOut, errorMessage, dClock, dTimer, dProvider>>
    /\ UNCHANGED <<rmfVars, searchVars, credVars, gatewayVars, serverVars, wizardVars>>

\* the bytes are there: the branch for the file's type starts (lines 48-71,
\* 181-188, 209-230)
BufferRead ==
    /\ dPc = "readingBuffer"
    /\ LET file == Val(dFile)
           branch == BranchOf(file)
           text == Utf8(file.content)
       IN  IF branch = "pdf" THEN dPc' = "loadingPdf" /\ UNCHANGED dOut
           ELSE IF branch = "docx" THEN dPc' = "mammoth" /\ UNCHANGED dOut
           ELSE IF branch = "text"
           THEN DocEnds(IF Len(Trim(text)) = 0 THEN Throws(TextFileEmpty)
                        ELSE Returns([text |-> text]))
           ELSE DocEnds(Throws(UnsupportedFileType(file.type)))
    /\ UNCHANGED <<geminiKey, dFile, errorMessage, dClock, dTimer, dProvider>>
    /\ UNCHANGED <<rmfVars, searchVars, credVars, gatewayVars, serverVars, wizardVars>>

\* pdfjs-dist has loaded the document and its pages, or has failed (lines
\* 71-156)
PdfSettle ==
    /\ dPc = "loadingPdf"
    /\ \E o \in PdfJsOutcomes(Val(dFile).content) :
          LET tried == PdfTry(o)
          IN  IF tried.ok
              THEN DocEnds(tried) /\ UNCHANGED errorMessage
              ELSE /\ errorMessage' = tried.error.message
                   /\ IF PdfCatch(tried.error.message) /= Null
                      THEN DocEnds(Throws(Val(PdfCatch(tried.error.message))))
                      ELSE dPc' = "fallback" /\ UNCHANGED dOut
    /\ UNCHANGED <<geminiKey, dFile, dClock, dTimer, dProvider>>
    /\ UNCHANGED <<rmfVars, searchVars, credVars, gatewayVars, serverVars, wizardVars>>

\* the fallback pdf-parse has settled (lines 157-176)
FallbackSettle ==
    /\ dPc = "fallback"
    /\ LET data == PdfParseOutcome(Val(dFile).content)
       IN  IF ~data.rejected /\ Len(data.text) > 0 /\ Len(Trim(data.text)) > 0
           THEN DocEnds(Returns([text |-> Trim(data.text),
                                 metadata |-> [pages |-> data.numpages]]))
           ELSE DocEnds(Throws(PdfParseFailed(errorMessage)))
    /\ UNCHANGED <<geminiKey, dFile, errorMessage, dClock, dTimer, dProvider>>
    /\ UNCHANGED <<rmfVars, searchVars, credVars, gatewayVars, serverVars, wizardVars>>

\* mammoth.extractRawText has settled (lines 186-205)
MammothSettle ==
    /\ dPc = "mammoth"
    /\ LET result == MammothOutcome(Val(dFile).content)
       IN  IF result.rejected THEN DocEnds(Throws(ErrorOf(result.message)))
           ELSE IF Len(result.value) = 0 \/ Len(Trim(result.value)) = 0
           THEN DocEnds(Throws(WordNoText))
           ELSE DocEnds(Returns([text |-> result.value]))
    /\ UNCHANGED <<geminiKey, dFile, errorMessage, dClock, dTimer, dProvider>>
    /\ UNCHANGED <<rmfVars, searchVars, credVars, gatewayVars, serverVars, wizardVars>>

-----------------------------------------------------------------------------
(* Specifications *)

\* a loader environment for the specifications that do not exercise the loader
RMFQuiet ==
    /\ RMFStart
    /\ fileState = [l \in Locations |-> IF l = "public" THEN "ok" ELSE "absent"]
    /\ fileText = [l \in Locations |-> IF l = "public" THEN "RMF" ELSE ""]
    /\ ~isProduction

\* credentials for the specifications that do not exercise the gateway
CredQuiet ==
    /\ openaiKey = TRUE
    /\ anthropicKey = FALSE

\* no request and an untouched wizard, for the specifications of one component
AppQuiet ==
    /\ ServerIdle
    /\ rFrom = "direct"
    /\ WizardStart

RMFInit ==
    /\ RMFStart
    /\ SearchIdle
    /\ CredQuiet
    /\ DocIdle
    /\ GatewayIdle
    /\ AppQuiet

LoaderCall == \E p \in Procs : CallLoadRMF(p) /\ UNCHANGED <<searchVars, credVars, docVars, gatewayVars, serverVars, wizardVars>>
LoaderCallSeq == \E p \in Procs : CallLoadRMFSeq(p) /\ UNCHANGED <<searchVars, credVars, docVars, gatewayVars, serverVars, wizardVars>>
LoaderFetchSettle == \E p \in Procs : FetchSettle(p) /\ UNCHANGED <<searchVars, credVars, docVars, gatewayVars, serverVars, wizardVars>>
LoaderBodySettle == \E p \in Procs : BodySettle(p) /\ UNCHANGED <<searchVars, credVars, docVars, gatewayVars, serverVars, wizardVars>>
LoaderResume == \E p \in Procs : CallerResume(p) /\ UNCHANGED <<searchVars, credVars, docVars, gatewayVars, serverVars, wizardVars>>

RMFNext ==
    \/ LoaderCall
    \/ LoaderFetchSettle
    \/ LoaderBodySettle
    \/ LoaderResume

RMFNextSeq ==
    \/ LoaderCallSeq
    \/ LoaderFetchSettle
    \/ LoaderBodySettle
    \/ LoaderResume

\* concurrent callers of loadRMF
SpecRMF == RMFInit /\ [][RMFNext]_vars

\* callers of loadRMF one after the other
SpecRMFSeq == RMFInit /\ [][RMFNextSeq]_vars

SearchInit ==
    /\ RMFQuiet
    /\ SearchIdle
    /\ CredQuiet
    /\ DocIdle
    /\ GatewayIdle
    /\ AppQuiet

SearchNext ==
    \/ SearchCall
    \/ SearchAnswer
    \/ SearchDelay

\* one stand-alone searchCompanyInfo call
SpecSearch == SearchInit /\ [][SearchNext]_vars

GatewayInit ==
    /\ RMFQuiet
    /\ SearchIdle
    /\ CredInit
    /\ DocIdle
    /\ GatewayIdle
    /\ AppQuiet

GatewayNext ==
    \/ GatewayCall
    \/ GatewayAnswer
    \/ GatewayReturn

\* stand-alone callLLM calls, one after the other
SpecGateway == GatewayInit /\ [][GatewayNext]_vars

\* the loader environments of the application: the file at its usual place,
\* or no local file, in development or in production
AppRMFEnv ==
    /\ RMFStart
    /\ fileState["root"] = "absent"
    /\ fileState["public"] \in {"ok", "absent"}
    /\ fileState["public"] = "ok" => fileText["public"] = "RMF" /\ ~isProduction
    /\ netText \in {"", "RMF"}

Init ==
    /\ AppRMFEnv
    /\ SearchIdle
    /\ CredInit
    /\ DocIdle
    /\ GatewayIdle
    /\ ServerIdle
    /\ rFrom \in {"api", "direct"}
    /\ WizardStart

WizardInit ==
    /\ RMFQuiet
    /\ SearchIdle
    /\ CredQuiet
    /\ DocIdle
    /\ GatewayIdle
    /\ ServerIdle
    /\ rFrom = "wizard"
    /\ WizardStart

\* `await fetch(...)` of loadRMF settles in the engine's call
EngineFetchSettle ==
    /\ rPc = "loadingRMF"
    /\ FetchSettle(Engine)
    /\ UNCHANGED <<searchVars, credVars, docVars, gatewayVars, serverVars, wizardVars>>

\* `await response.text()` of loadRMF settles in the engine's call
EngineBodySettle ==
    /\ rPc = "loadingRMF"
    /\ BodySettle(Engine)
    /\ UNCHANGED <<searchVars, credVars, docVars, gatewayVars, serverVars, wizardVars>>

Next ==
    \/ ApiRequest
    \/ EngineCall
    \/ TakeAnswer
    \/ RoutePOST
    \/ GenerateDDQBody
    \/ GenerateIMBody
    \/ ExtractBody
    \/ EngineFetchSettle
    \/ EngineBodySettle
    \/ EngineLoaded
    \/ EvidenceAnswer
    \/ EvidenceDelay
    \/ EvidenceDone
    \/ LLMAnswer
    \/ GenerateDone
    \/ ExtractDone

\* clients of the routes and direct callers of the engines, one request at a
\* time, in every configuration of credentials and of the framework's storage
Spec == Init /\ [][Next]_vars

\* with the framework file in place the loader never fetches
WizardNext ==
    \/ handlePasteText
    \/ handlePasteTextResume
    \/ EditCompanyName
    \/ Navigate
    \/ handleFormSubmit
    \/ handleFormSubmitResume
    \/ handleGenerateIM
    \/ handleGenerateIMResume
    \/ RoutePOST
    \/ GenerateDDQBody
    \/ GenerateIMBody
    \/ ExtractBody
    \/ EngineLoaded
    \/ EvidenceAnswer
    \/ EvidenceDelay
    \/ EvidenceDone
    \/ LLMAnswer
    \/ GenerateDone
    \/ ExtractDone

\* the wizard driving the routes, with the OpenAI credential configured and
\* the framework file in place
SpecWizard == WizardInit /\ [][WizardNext]_vars

EnginesInit ==
    /\ RMFQuiet
    /\ SearchIdle
    /\ CredQuiet
    /\ DocIdle
    /\ GatewayIdle
    /\ ServerIdle
    /\ rFrom = "direct"
    /\ WizardStart

EnginesNext ==
    \/ EngineCall
    \/ EngineLoaded
    \/ EvidenceAnswerOrFailure
    \/ EvidenceDelay
    \/ EvidenceDone
    \/ LLMAnswer
    \/ GenerateDone

\* one direct call of an engine, with the OpenAI credential configured and the
\* framework file in place, each evidence query answered or failed
SpecEngines == EnginesInit /\ [][EnginesNext]_vars

\* the rest of the application at rest, for the text-extraction specifications
DocsQuiet ==
    /\ RMFQuiet
    /\ SearchIdle
    /\ CredQuiet
    /\ GatewayIdle
    /\ AppQuiet

GeminiInit ==
    /\ DocsQuiet
    /\ geminiKey \in BOOLEAN
    /\ dPc = "idle"
    /\ dFile = Null
    /\ dOut = Null
    /\ errorMessage = ""
    /\ dClock = 0
    /\ dTimer = "unset"
    /\ dProvider = "none"

GeminiNext ==
    \/ GeminiCall
    \/ Tick
    \/ TimerFires
    \/ ProviderSettles

\* one PDF extraction with the Gemini API, on a clock of minutes
SpecGemini == GeminiInit /\ [][GeminiNext]_vars

FilesInit ==
    /\ DocsQuiet
    /\ DocIdle

FilesNext ==
    \/ ExtractCall
    \/ BufferRead
    \/ PdfSettle
    \/ FallbackSettle
    \/ MammothSettle

\* one extractTextFromFile call of the pdfjs-based processor
SpecFiles == FilesInit /\ [][FilesNext]_vars

\* text that is not JSON and is longer than the preview of an error message
LongProse ==
    "The documents provided do not describe any environmental or social policy. "
        \o "No board-level oversight of sustainability matters is mentioned anywhere. "
        \o "I would need the annual report and the supplier code of conduct to assess this."

Proses == {"", "Here is the result: ", " Thanks!", "Sure.\n"}

\* how a model wraps the JSON it answers with: bare, or in a code fence
Wrapped(text, fenced) ==
    IF fenced THEN Fence \o "json\n" \o text \o "\n" \o Fence ELSE text

\* prose, then a document, then prose
Embedded(pre, text, fenced, post) == pre \o Wrapped(text, fenced) \o post

\* contents a provider may answer a callLLMJSON request with
RawResponses ==
    { Null, Some(""), Some(" \n "), Some("I cannot help with that."), Some(LongProse),
      Some("{\"a\":1"), Some("{\"a\":1} or {\"b\":2}"), Some("null") }
    \cup { Some(Embedded(pre, d.text, fenced, post)) :
               pre \in Proses, d \in SmallDocs, fenced \in BOOLEAN, post \in Proses }

\* callLLMJSON is called on its own
JSONCall ==
    /\ rPc = "idle"
    /\ gPc = "idle"
    /\ \E provider \in Providers, systemPrompt \in {Null, Some("You are an analyst.")} :
          CallLLMJSONWith("Assess the company.", systemPrompt, provider, FreshLog)
    /\ rRoute' = "callLLMJSON"
    /\ rBody' = Body(Null, Null, Null, Null)
    /\ rResp' = Null
    /\ attempts' = 0
    /\ retrying' = FALSE
    /\ UNCHANGED <<rFrom, ddqIssued>>
    /\ UNCHANGED <<rmfVars, searchVars, credVars, docVars, wizardVars>>

\* the provider call of the running callLLMJSON settles
JSONAnswer ==
    /\ rPc = "callingLLM"
    /\ \E o \in ProviderFailures \cup {Answer(c) : c \in RawResponses} : GatewaySettle(o)
    /\ UNCHANGED <<rmfVars, searchVars, credVars, docVars, serverVars, wizardVars>>

\* callLLMJSON returns or throws (lines 206-256)
JSONReturn ==
    /\ rPc = "callingLLM"
    /\ gPc \in {"returned", "threw"}
    /\ rPc' = "responded"
    /\ rResp' = IF CallLLMJSONResult.ok THEN Returned(Val(CallLLMJSONResult.value))
                ELSE Thrown(CallLLMJSONResult.error)
    /\ UNCHANGED <<rFrom, rRoute, rBody, rLog, attempts, retrying, ddqIssued>>
    /\ UNCHANGED <<rmfVars, searchVars, credVars, docVars, gatewayVars, wizardVars>>

\* the caller takes the result
JSONTake ==
    /\ Release
    /\ GatewayTake
    /\ UNCHANGED <<rmfVars, searchVars, credVars, docVars, wizardVars>>

JSONNext ==
    \/ JSONCall
    \/ JSONAnswer
    \/ JSONReturn
    \/ JSONTake

\* stand-alone callLLMJSON calls, one after the other, in every credential
\* configuration
SpecJSON == GatewayInit /\ [][JSONNext]_vars

-----------------------------------------------------------------------------
(* Claims about the evidence gatherer *)

Distinct(q) == \A i, j \in 1..Len(q) : i /= j => q[i] /= q[j]

\* the entry a topic must have, given what the provider did for it
EntryFor(company, query, o) ==
    [ key |-> query,
      value |-> [ query |-> FullQuery(company, query),
                  results |-> IF o.threw THEN <<>>
                              ELSE ParseSearchResponse(FullQuery(company, query),
                                                       ContentOf(o.content)) ] ]

\* C1: for every company name, every list of distinct topics and every subset
\* of provider calls that throw, searchCompanyInfo returns (it never ends by
\* throwing) a bundle with exactly one entry per topic, in topic-list order;
\* the entry of a topic whose call threw has no results, the other entries are
\* what their provider responses yield.
C1_OneEntryPerTopic ==
    \A k \in SearchCalls :
        /\ sPc[k] \in {"idle", "inFlight", "delay", "returned"}
        /\ (sPc[k] = "returned" /\ Distinct(sQueries[k])) =>
              /\ Len(sLog[k]) = Len(sQueries[k])
              /\ Len(sResults[k]) = Len(sQueries[k])
              /\ \A i \in 1..Len(sQueries[k]) :
                    sResults[k][i] = EntryFor(sCompany[k], sQueries[k][i], sLog[k][i])

\* a returned bundle of three distinct topics, one of whose calls threw while
\* another produced a result
C1_Witness ==
    /\ sPc[1] = "returned"
    /\ Distinct(sQueries[1])
    /\ Len(sQueries[1]) = 3
    /\ \E i \in 1..3 : sLog[1][i].threw
    /\ \E i \in 1..3 : ~sLog[1][i].threw /\ sResults[1][i].value.results /= <<>>
    /\ \E i \in 1..3 : ~sLog[1][i].threw /\ sResults[1][i].value.results = <<>>

-----------------------------------------------------------------------------
(* Claims about the knowledge-base loader *)

Ended(c) == callLog[c].outcome \in {"returned", "threw"}

\* the number of underlying loads call c made: file reads that delivered the
\* file's content, and network fetches
Underlying(c) ==
    (IF callLog[c].read = "ok" THEN 1 ELSE 0) + (IF callLog[c].fetched THEN 1 ELSE 0)

\* C3: loadRMF is memoized for the process lifetime: when the first call of a
\* sequence of calls has returned a text, it made exactly one underlying file
\* read or network fetch, and every later call returns that same text without
\* any further read or fetch.
C3_MemoizedForProcessLifetime ==
    callLog[1].outcome = "returned" =>
        /\ Underlying(1) = 1
        /\ \A c \in CallIds : (c > 1 /\ Ended(c)) =>
              /\ callLog[c].outcome = "returned"
              /\ callLog[c].text = callLog[1].text
              /\ Underlying(c) = 0

\* C4: loadRMF fails only if both the local and the network path fail: a call
\* that throws had no readable local location and had attempted the network
\* fetch, in every environment.
C4_FailsOnlyIfLocalAndNetworkFail ==
    \A c \in CallIds : callLog[c].outcome = "threw" =>
        /\ \A i \in 1..Len(possiblePaths) : fileState[possiblePaths[i]] /= "ok"
        /\ callLog[c].fetched

\* C5: loadRMF never returns successfully with empty or whitespace-only text,
\* on a first call or on any later call, from a local file or from the fetch.
C5_NeverReturnsBlankFramework ==
    \A c \in CallIds : callLog[c].outcome = "returned" =>
        /\ callLog[c].text /= Null
        /\ Len(Trim(Val(callLog[c].text))) > 0

\* C6: the cache is write-once under concurrency: it is written only by a load
\* that goes on to succeed, a cached value is never replaced by different
\* content, and every call that returns, returns the same content.
C6_CacheWriteOnce ==
    /\ \A c \in CallIds : callLog[c].written /= Null => callLog[c].outcome /= "threw"
    /\ \A c, d \in CallIds :
          (callLog[c].written /= Null /\ callLog[d].written /= Null)
              => callLog[c].written = callLog[d].written
    /\ \A c, d \in CallIds :
          (callLog[c].outcome = "returned" /\ callLog[d].outcome = "returned")
              => callLog[c].text = callLog[d].text

-----------------------------------------------------------------------------
(* Claims about the engines, the routes and the wizard *)

\* the running request is a run of generateDDQ or generateIM
EngineRun == rPc /= "idle" /\ rRoute \in {"generate-ddq", "generate-im"}

\* how the run answers its caller when loadRMF failed
RMFFailure ==
    IF rFrom = "direct" THEN Thrown(RMFNotFound)
    ELSE Http(500, [error |-> RMFNotFound.message])

\* C2: Knowledge-base failure is fatal for both engines: in every run of
\* generateDDQ and of generateIM no evidence query and no LLM Gateway call is
\* issued before loadRMF has returned successfully, and when loadRMF fails
\* the generate call fails with loadRMF's error, having issued none.
C2_KnowledgeBaseFailureIsFatal ==
    EngineRun =>
        /\ ( \/ rLog.queries > 0
             \/ rLog.llm > 0
             \/ \E k \in SearchCalls : sPc[k] /= "idle"
             \/ gPc /= "idle" ) => rLog.loaded
        /\ (rLog.loads > 0 /\ rPc /= "loadingRMF" /\ ~rLog.loaded) =>
              /\ rPc = "responded"
              /\ rResp = RMFFailure
              /\ rLog.queries = 0
              /\ rLog.llm = 0
              /\ gSent = <<>>

\* a direct call of generateDDQ whose loadRMF threw has thrown that error
C2_Witness ==
    /\ rFrom = "direct"
    /\ rRoute = "generate-ddq"
    /\ rPc = "responded"
    /\ rLog.loads = 1
    /\ ~rLog.loaded
    /\ rResp = Thrown(RMFNotFound)

\* C7: generateIM invoked with a null or absent DDQResult fails fast: it
\* returns an error without calling the LLM Gateway.
C7_NullDDQFailsFast ==
    (rFrom = "direct" /\ rPc /= "idle" /\ rRoute = "generate-im" /\ rBody.ddqResult = Null) =>
        /\ rLog.llm = 0
        /\ gSent = <<>>
        /\ rPc = "responded" => rResp.kind = "throw"

\* the company a request body is about
CompanyOf(body) == Interpolate(Get(Val(body.companyInfo), "companyName"))

\* C8: in every run of the wizard, IM generation for a company is invoked only
\* after a DDQ generation for that company has completed and returned a
\* result, and that result is what the generate-im request carries.
C8_IMAfterDDQOfSameCompany ==
    (rFrom = "wizard" /\ rPc /= "idle" /\ rRoute = "generate-im") =>
        /\ rBody.companyInfo /= Null
        /\ rBody.ddqResult /= Null
        /\ \E d \in ddqIssued :
              /\ d.company = CompanyOf(rBody)
              /\ d.result = Val(rBody.ddqResult)

-----------------------------------------------------------------------------
(* Claims about the LLM gateway *)

\* a credential is configured for the provider
HasCredential(provider) == IF provider = "anthropic" THEN anthropicKey ELSE openaiKey

\* C10: callLLM with a selected provider for which no credential is configured
\* fails with the authentication error (the one it reports for a
\* provider-reported authentication failure), for either provider, and
\* without sending a request to any provider.
C10_MissingCredentialIsAuthError ==
    (gPc /= "idle" /\ ~HasCredential(gProvider)) =>
        /\ gSent = <<>>
        /\ gPc = "threw"
        /\ gOut = Some(AuthenticationFailed(gProvider))

\* C11: provider selection is never a failover: in every credential
\* configuration a call with selected provider P sends its request to
\* backend P only, and is never served by the other backend.
C11_NoFailover ==
    \A i \in 1..Len(gSent) : gSent[i].backend = gProvider

\* the kind a failure of a given cause is to be reported as
ReportedAs(cause, e, provider) ==
    IF cause = "throttling" THEN RateLimitExceeded
    ELSE IF cause = "timeout" THEN RequestTimedOut
    ELSE IF cause = "authentication" THEN AuthenticationFailed(provider)
    ELSE e

\* C12: every failure of a provider call in callLLM is reported as the one
\* kind its cause determines: throttling as the rate-limit error, a transport
\* timeout as the timeout error, an authentication failure as the
\* authentication error, anything else as the original error unchanged.
C12_FailureKindFollowsCause ==
    (gPc = "threw" /\ gRaw /= Null) =>
        gOut = Some(ReportedAs(Val(gRaw).cause, Val(gRaw).error, gProvider))

-----------------------------------------------------------------------------
(* Claims about structured output *)

\* a stand-alone callLLMJSON call has ended after its provider answered
JSONAnswered == rRoute = "callLLMJSON" /\ rPc = "responded" /\ gPc = "returned"

\* response.content in callLLMJSON: the raw response
RawContent == Val(gOut).content

Blank(t) == \A i \in 1..Len(t) : CharAt(t, i) \in WhitespaceChars

EmptyResponse == ErrorOf("LLM returned empty response")

\* C13: callLLMJSON fails with the empty-response error whenever the raw
\* provider response is empty or whitespace-only, for either provider; the
\* response is not stripped or parsed (which would end in another error).
C13_BlankResponseIsEmptyError ==
    (JSONAnswered /\ Blank(RawContent)) =>
        /\ rResp.kind = "throw"
        /\ rResp.body = EmptyResponse

\* a whitespace-only answer of the Anthropic backend ended in the empty-response error
C13_Witness ==
    /\ JSONAnswered
    /\ gProvider = "anthropic"
    /\ gSent[1].backend = "anthropic"
    /\ RawContent = " \n "
    /\ rResp = Thrown(EmptyResponse)

\* the text callLLMJSON hands to JSON.parse
Salvaged(content) ==
    IF JsonMatch(StripFences(content)) /= Null
    THEN Val(JsonMatch(StripFences(content)))
    ELSE StripFences(content)

\* the first 200 characters
Preview(t) == IF Len(t) <= 200 THEN t ELSE SubSeq(t, 1, 200)

\* C14: when the response text, after fence-stripping and brace-span
\* extraction, does not parse, callLLMJSON fails with the malformed-JSON error
\* whose message carries the first 200 characters of the raw response; and
\* nothing is retried: every callLLMJSON invocation calls callLLM once, and a
\* call whose provider was reached has sent exactly one request.
C14_MalformedJSONCarriesPreview ==
    /\ (JSONAnswered /\ ~Blank(RawContent) /\ ~JSONParse(Salvaged(RawContent)).ok) =>
          /\ rResp.kind = "throw"
          /\ rResp.body = ErrorOf("Invalid JSON response from LLM. Response preview: "
                                      \o Preview(RawContent) \o "...")
    /\ (rRoute = "callLLMJSON" /\ rPc /= "idle") =>
          /\ rLog.llm = 1
          /\ Len(gSent) <= 1
          /\ gRaw /= Null => Len(gSent) = 1

\* an answer of more than 200 characters of prose ended in the malformed-JSON
\* error with its first 200 characters
C14_Witness ==
    /\ JSONAnswered
    /\ RawContent = LongProse
    /\ Len(RawContent) > 200
    /\ rResp.kind = "throw"
    /\ Len(rResp.body.message) = 50 + 200 + 3
    /\ Len(gSent) = 1

\* the documents that are one JSON object
ObjectDocs == {d \in SmallDocs : "array" \notin DOMAIN Val(d.value)}

NoFence(t) == Occurrences(t, Fence) = {}

\* the finished call returned the value of document d
ReturnedDoc(d) == rResp.kind = "return" /\ rResp.body = Val(d.value)

\* C15 as stated: for every raw response made of prose, one well-formed JSON
\* object and prose again (no braces in the prose, with or without a code
\* fence around the object), callLLMJSON returns exactly that object.
C15_ObjectInProseIsReturned ==
    JSONAnswered =>
        \A pre \in Proses, post \in Proses, fenced \in BOOLEAN, d \in ObjectDocs :
            RawContent = Embedded(pre, d.text, fenced, post) => ReturnedDoc(d)

\* C15, amended: the same for every such response whose JSON object contains
\* no code-fence marker.
C15_FenceFreeObjectInProseIsReturned ==
    JSONAnswered =>
        \A pre \in Proses, post \in Proses, fenced \in BOOLEAN, d \in ObjectDocs :
            (NoFence(d.text) /\ RawContent = Embedded(pre, d.text, fenced, post))
                => ReturnedDoc(d)

\* the answer "Here is the result: {"a":1} Thanks!" gave the object {a: 1}
C15_Witness ==
    /\ JSONAnswered
    /\ RawContent = "Here is the result: {\"a\":1} Thanks!"
    /\ rResp = Returned([a |-> 1])

\* C16 as stated: for every raw response that is itself valid JSON text with
\* no fences and no surrounding prose, callLLMJSON returns exactly the value
\* that parsing the raw response directly yields.
C16_CleanJSONIsReturnedAsParsed ==
    JSONAnswered =>
        \A d \in JSONDocs :
            (NoFence(d.text) /\ RawContent = d.text) =>
                /\ rResp.kind = "return"
                /\ d.value /= Null => rResp.body = Val(d.value)

\* C16, amended: the same for every raw response that is the text of one JSON
\* object.
C16_CleanObjectIsReturnedAsParsed ==
    JSONAnswered =>
        \A d \in ObjectDocs :
            (NoFence(d.text) /\ RawContent = d.text) => ReturnedDoc(d)

\* the answer {"a":1} gave the object {a: 1}
C16_Witness ==
    /\ JSONAnswered
    /\ RawContent = "{\"a\":1}"
    /\ JSONParse(RawContent).ok
    /\ rResp = Returned(Val(JSONParse(RawContent).value))

-----------------------------------------------------------------------------
(* Claims about the engines' use of evidence and of the gateway *)

NumQueries == Len(trackRecordQueries) + Len(esgQueries)

\* C17: evidence-gathering failure is not fatal for DDQ generation: whichever
\* of the ten evidence queries fail, no batch throws, both batches settle with
\* an entry per topic, generateDDQ then makes its one LLM Gateway call, and
\* the run ends only after that call.
C17_EvidenceFailureIsNotFatal ==
    (rPc /= "idle" /\ rRoute = "generate-ddq" /\ rLog.loaded) =>
        /\ \A k \in SearchCalls : sPc[k] \in {"idle", "inFlight", "delay", "returned"}
        /\ \A k \in SearchCalls :
              sPc[k] = "returned" => Len(sResults[k]) = Len(sQueries[k])
        /\ rLog.failed <= rLog.queries
        /\ rPc = "gathering" => rLog.llm = 0
        /\ rPc \in {"callingLLM", "responded"} =>
              /\ rLog.queries = NumQueries
              /\ rLog.llm = 1

\* all ten queries failed and generateDDQ returned the assessment
C17_Witness ==
    /\ rFrom = "direct"
    /\ rRoute = "generate-ddq"
    /\ rPc = "responded"
    /\ rLog.failed = NumQueries
    /\ rLog.llm = 1
    /\ rResp = Returned(GoldenDDQ)

\* the step in which a direct call of an engine ends with callLLMJSON settled
EngineEnds(route) ==
    /\ rFrom = "direct"
    /\ rRoute = route
    /\ rPc = "callingLLM"
    /\ rPc' = "responded"

\* C18: neither engine retries: every generateDDQ and generateIM call invokes
\* callLLMJSON at most once, and when that invocation fails, with whatever
\* gateway or extraction error, the generate call fails with that same error,
\* no further gateway call made.
C18_EnginesDoNotRetry ==
    /\ [](EngineRun => rLog.llm <= 1)
    /\ [][ ((EngineEnds("generate-ddq") \/ EngineEnds("generate-im"))
                /\ ~CallLLMJSONResult.ok) =>
               /\ rResp'.kind = "throw"
               /\ rResp'.body = CallLLMJSONResult.error
               /\ rLog'.llm = 1
               /\ gPc' = "idle" ]_vars

\* generateIM failed with the gateway's rate-limit error after one call
C18_Witness ==
    /\ rFrom = "direct"
    /\ rRoute = "generate-im"
    /\ rPc = "responded"
    /\ rLog.llm = 1
    /\ rResp = Thrown(RateLimitExceeded)

\* C19: generateDDQ is a pass-through of the parsed gateway result: whatever
\* JSON object callLLMJSON returns, generateDDQ returns that object unchanged,
\* objects whose category arrays are absent or malformed included.
C19_DDQPassThrough ==
    [][ (EngineEnds("generate-ddq") /\ CallLLMJSONResult.ok) =>
           /\ rResp'.kind = "return"
           /\ rResp'.body = Val(CallLLMJSONResult.value) ]_vars

\* the categories have the rubric's number of items, named as the rubric
\* names them and in its order
FollowsRubric(v) ==
    \A c \in DOMAIN RubricAreas :
        /\ c \in DOMAIN v
        /\ Len(v[c]) = Len(RubricAreas[c])
        /\ \A i \in 1..Len(RubricAreas[c]) : v[c][i].area = RubricAreas[c][i]

\* C20: every DDQResult returned by generateDDQ has exactly 4 riskManagement
\* items, 2 environment items, 6 social items and 7 governance items, whose
\* area names are the rubric's fixed names in the rubric's order.
C20_ReturnedDDQFollowsRubric ==
    (rFrom = "direct" /\ rRoute = "generate-ddq" /\ rPc = "responded"
        /\ rResp.kind = "return") => FollowsRubric(rResp.body)

-----------------------------------------------------------------------------
(* Claims about the order and the timing of the evidence queries *)

\* C21: within one evidence batch the queries run strictly one after the
\* other with the fixed delay between them: the next query of a batch is
\* issued only by a step that ends the delay after the previous query,
\* whether that query succeeded or failed.
C21_DelayBetweenQueries ==
    [][ \A k \in SearchCalls :
           (sPc[k] \in {"inFlight", "delay"} /\ sPc'[k] = "inFlight"
               /\ sIdx'[k] = sIdx[k] + 1) => sPc[k] = "delay" ]_vars

\* the step in which generateDDQ starts its two evidence batches
BatchesDispatched == rPc = "loadingRMF" /\ rPc' = "gathering"

\* the step in which generateDDQ, both batches settled, merges the evidence
\* and sends the prompt built from it
EvidenceMerged ==
    /\ rRoute = "generate-ddq"
    /\ rPc = "gathering"
    /\ rPc' = "callingLLM"

\* the DDQ prompt as the gateway sends it, for a given list of evidence
PromptWith(evidence) ==
    JSONPrompt(DDQPrompt(Val(rBody.companyInfo), rBody.extractedText,
                         formatSearchResultsForPrompt(evidence), RMFText(Engine)))

\* the entries of batch 1 followed by the entries of batch 2, as stored
StoredInOrder ==
    LET n == Len(sResults[1])
    IN  [i \in 1..(n + Len(sResults[2])) |->
            IF i <= n THEN sResults[1][i].value ELSE sResults[2][i - n].value]

\* C22: the two evidence batches of one generateDDQ call are dispatched in
\* the same step and run interleaved; in every interleaving each batch holds
\* its entries in the order of its topic list, and the evidence sent on is
\* the first batch's entries followed by the second batch's, each in that
\* order.
C22_BatchesMergedInTopicOrder ==
    /\ [][ BatchesDispatched =>
              /\ \A k \in SearchCalls : sPc'[k] = "inFlight" /\ sIdx'[k] = 1
              /\ sQueries'[1] = trackRecordQueries
              /\ sQueries'[2] = esgQueries ]_vars
    /\ [](rPc = "gathering" =>
              \A k \in SearchCalls :
                  /\ Len(sResults[k]) <= Len(sQueries[k])
                  /\ \A i \in 1..Len(sResults[k]) : sResults[k][i].key = sQueries[k][i])
    /\ [][ EvidenceMerged => gSent'[1].prompt = PromptWith(StoredInOrder) ]_vars

\* the merged evidence of two batches with failed and answered queries is on
\* its way to the model
C22_Witness ==
    /\ rRoute = "generate-ddq"
    /\ rPc = "callingLLM"
    /\ rLog.queries = NumQueries
    /\ rLog.failed = 1
    /\ Len(gSent) = 1

\* the evidence list fixed by what the provider did for each topic: the
\* track-record entries, then the practice entries
EvidenceOf(company) ==
    LET n == Len(trackRecordQueries)
    IN  [i \in 1..NumQueries |->
            IF i <= n
            THEN EntryFor(company, trackRecordQueries[i], sLog[1][i]).value
            ELSE EntryFor(company, esgQueries[i - n], sLog[2][i - n]).value]

\* C28: the evidence fed to the DDQ prompt does not depend on the race
\* between the two batches: whatever the interleaving and the completion
\* order, the prompt holds the evidence text of the track-record entries
\* followed by the practice entries, each entry a function of the provider's
\* response for its topic alone.
C28_EvidenceTextIndependentOfRace ==
    [][ EvidenceMerged =>
           gSent'[1].prompt =
               PromptWith(EvidenceOf(Interpolate(Get(Val(rBody.companyInfo),
                                                     "companyName")))) ]_vars

\* the practice batch has returned before the track-record batch stored its
\* first entry
C28_Witness ==
    /\ rPc = "gathering"
    /\ sPc[2] = "returned"
    /\ sResults[1] = <<>>
    /\ \E i \in 1..Len(sLog[2]) : ~sLog[2][i].threw

-----------------------------------------------------------------------------
(* Claims about the extract-info route *)

\* the extract-info route has answered with a success response
ExtractSucceeded ==
    /\ rRoute = "extract-info"
    /\ rPc = "responded"
    /\ rResp.kind = "http"
    /\ rResp.status = 200

\* the step in which the extract-info route answers after a callLLMJSON of
\* its retry loop has returned a value
ExtractAnswersOnResult ==
    /\ rRoute = "extract-info"
    /\ rPc = "callingLLM"
    /\ rPc' = "responded"
    /\ CallLLMJSONResult.ok

NameFields == {"companyName", "sector", "subSector", "numberOfEmployees"}
TextFields == {"businessActivities", "productDescription"}

\* every required field of a profile is valid
RequiredFieldsValid(p) ==
    /\ \A f \in NameFields : f \in DOMAIN p /\ Len(Trim(p[f])) > 0
    /\ "countriesOfOperation" \in DOMAIN p /\ Len(p.countriesOfOperation) >= 1
    /\ \A f \in TextFields : f \in DOMAIN p /\ Len(Trim(p[f])) >= 50

\* C23: every success response of extract-info carries a profile whose
\* required fields are all valid (the four name fields non-empty after
\* trimming, at least one country, the two descriptions at least 50
\* characters after trimming), and a profile failing any of these is answered
\* with an error response, whichever call of the retry loop returned it.
C23_SuccessCarriesValidProfile ==
    /\ [](ExtractSucceeded => RequiredFieldsValid(rResp.body))
    /\ [][ (ExtractAnswersOnResult /\ ~RequiredFieldsValid(Val(CallLLMJSONResult.value)))
              => (rResp'.kind = "http" /\ rResp'.status \in {422, 500}) ]_vars

\* a success response made from the result of the retry-prompt call
C23_Witness ==
    /\ ExtractSucceeded
    /\ retrying
    /\ rLog.llm = 2
    /\ RequiredFieldsValid(rResp.body)

\* C26: the retry loop of extract-info is bounded: on every path one request
\* makes at most maxAttempts LLM Gateway calls.
C26_AtMostMaxAttemptsCalls ==
    rRoute = "extract-info" => rLog.llm <= maxAttempts

\* C27: extract-info never returns a success response in which companyName,
\* sector, subSector or numberOfEmployees is the placeholder 'not specified'
\* in any letter case.
C27_NoPlaceholderInSuccess ==
    ExtractSucceeded => \A f \in NameFields : ~NotSpecified(rResp.body, f)

-----------------------------------------------------------------------------
(* Claims about the credential the routes check and the engines use *)

\* the running LLM Gateway call failed before any request was sent, for lack
\* of a credential
FailedForLackOfCredential ==
    /\ gPc = "threw"
    /\ gSent = <<>>
    /\ gOut = Some(Classify(MissingKeyError, gProvider))

\* C29: whenever a route's credential check has passed, the engine behind it
\* has a usable credential: in every configuration the routes accept, the
\* LLM Gateway call made for the request does not fail for lack of a
\* credential.
C29_AcceptedConfigurationHasCredential ==
    (rFrom = "api" /\ rPc = "callingLLM") => ~FailedForLackOfCredential

-----------------------------------------------------------------------------
(* Claims about the results the wizard holds *)

\* C30: in every reachable state of the wizard a held IM result was generated
\* from the DDQ result currently held: an IM result is stored only from a
\* generate-im request that carried the held DDQ result, and a step that
\* replaces the held DDQ result does not leave the IM result in place.
C30_HeldIMFromHeldDDQ ==
    [][ /\ (imResult' /= imResult /\ imResult' /= Null) =>
              (rBody.ddqResult = ddqResult /\ ddqResult' = ddqResult)
        /\ (imResult /= Null /\ ddqResult' /= ddqResult) => imResult' = Null ]_vars

-----------------------------------------------------------------------------
(* Claims about text extraction *)

\* the extraction call has settled
DocSettled == dPc \in {"returned", "threw"}

\* C24: PDF text extraction enforces a hard timeout: the call is never still
\* open after the fixed bound, whether or not the provider responds; when the
\* timeout expires on an open call the call fails with the timeout error; and
\* once the call has settled nothing (a provider response arriving later, the
\* timer) changes its outcome.
C24_ExtractionSettlesWithinTimeout ==
    /\ [](dPc = "racing" => dClock <= TimeoutMinutes)
    /\ [](dClock > TimeoutMinutes => DocSettled)
    /\ [][ (dPc = "racing" /\ dTimer = "armed" /\ dTimer' = "fired")
              => (dPc' = "threw" /\ dOut' = Some(Throws(PdfTimedOut))) ]_vars
    /\ [][ DocSettled => (dPc' = dPc /\ dOut' = dOut) ]_vars

\* the call failed with the timeout error and the provider responded after
\* the bound
C24_Witness ==
    /\ dPc = "threw"
    /\ dOut = Some(Throws(PdfTimedOut))
    /\ dTimer = "fired"
    /\ dProvider = "settled"
    /\ dClock > TimeoutMinutes

\* what a file is, seen from the branch extractTextFromFile takes for it
CauseOf(file) ==
    IF BranchOf(file) = "unsupported" THEN "unsupported"
    ELSE IF BranchOf(file) /= "pdf" THEN "none"
    ELSE IF file.content.kind /= "pdf" THEN "corrupted"
    ELSE file.content.cause

\* C25: extractTextFromFile reports each failure cause with its own error: a
\* PDF from which no text could be extracted is reported as image-based, only
\* an encrypted or password-protected PDF is reported as encrypted, only a
\* corrupted PDF as corrupted, and an unsupported file type, and nothing
\* else, as unsupported.
C25_EachCauseHasItsOwnError ==
    (dPc = "threw") =>
        LET cause == CauseOf(Val(dFile))
            e == Val(dOut).error
        IN  /\ errorMessage = NoTextExtracted.message => e = PdfNoText
            /\ e = PdfNoText => cause = "noText"
            /\ e = PdfEncrypted => cause = "encrypted"
            /\ e = PdfCorrupted => cause = "corrupted"
            /\ e = UnsupportedFileType(Val(dFile).type) <=> cause = "unsupported"

====
